---- MODULE Spec2Model ----
(***************************************************************************)
(* Fault-tolerant task pipeline: submitTask (API handler wrapped by the    *)
(* idempotency middleware), processTask (SQS consumer), monitorDLQ (DLQ    *)
(* consumer), the DynamoDB task and idempotency tables and the SQS queue   *)
(* with its redrive policy.                                                *)
(*                                                                         *)
(* Spec      : the pipeline, with a key-value store that answers every     *)
(*             request; the queue may refuse a send and may deliver a      *)
(*             deleted message again (standard queue, at-least-once).      *)
(* SpecLive  : Spec with weak fairness on delivery and handler steps.      *)
(* SpecRetry : the two retry decisions (processTaskMessage's               *)
(*             isRetryableFailure and RetryStrategy.shouldRetry) applied   *)
(*             to inputs drawn from bounded sets.                          *)
(***************************************************************************)
EXTENDS Integers, Sequences, FiniteSets, TLC

VARIABLES tasks, idem, req, queue, worker, now, dups, probe

vars == <<tasks, idem, req, queue, worker, now, dups, probe>>

(***************************************************************************)
(* Bounds of the model                                                     *)
(***************************************************************************)
NumReq == 2
MaxTime == 3
MinutesPerTick == 30
MaxDuplicates == 1
MaxProbeRetries == 3
MaxProbeCount == 4
MaxAttempt == 10
MaxRegistrations == 2
MaxRegistryAttempt == 2
MaxExecuteRetries == 3
MaxStoreCalls == 2
MaxVisibilityCalls == 2
MaxVisibilityRetryCount == 3
MaxEntries == 3
MaxAnalyticsTicks == 3
MaxAnalyticsCalls == 2
MaxDLQInvocations == 2
MaxBatch == 2

(***************************************************************************)
(* Program constants                                                       *)
(***************************************************************************)
expirationMinutes == 60
maxRetries == 2
maxReceiveCount == 3
FailureThreshold == 30000
HashModulus == 100000

Req == 1..NumReq

(* Task ids are strings, written as sequences of character codes:          *)
(* "b-1", "t-2", "t-4", "zz".                                              *)
TaskIds == { <<98, 45, 49>>, <<116, 45, 50>>, <<116, 45, 52>>, <<122, 122>> }

(* Request bodies, as sequences of character codes: "ab", "ba" and "bC"    *)
(* (the last one has the same requestHash as "ab").                        *)
Bodies == { <<97, 98>>, <<98, 97>>, <<98, 67>> }

PENDING == "PENDING"
PROCESSING == "PROCESSING"
COMPLETED == "COMPLETED"
FAILED == "FAILED"
DEAD_LETTER == "DEAD_LETTER"
TaskStatus == {PENDING, PROCESSING, COMPLETED, FAILED, DEAD_LETTER}

(***************************************************************************)
(* String and integer helpers                                              *)
(***************************************************************************)
RECURSIVE BitXor(_, _)
BitXor(a, b) ==
  IF a = 0 THEN b
  ELSE IF b = 0 THEN a
  ELSE 2 * BitXor(a \div 2, b \div 2) + ((a + b) % 2)

Abs(x) == IF x < 0 THEN -x ELSE x

(* String.prototype.includes *)
Includes(s, sub) ==
  \E i \in 0..(Len(s) - Len(sub)) : SubSeq(s, i + 1, i + Len(sub)) = sub

(* The patterns looked for in a task id: "force-fail", "force-success",    *)
(* "force-fail-retry".                                                     *)
ForceFail == <<102, 111, 114, 99, 101, 45, 102, 97, 105, 108>>
ForceSuccess == <<102, 111, 114, 99, 101, 45, 115, 117, 99, 99, 101, 115, 115>>
ForceFailRetry == ForceFail \o <<45, 114, 101, 116, 114, 121>>

(***************************************************************************)
(* Hashes.  Every string of the model is short enough for the 32-bit       *)
(* intermediate values of the code to stay below 2^31, where << and ^ act  *)
(* as multiplication and bitwise exclusive or of non-negative integers.    *)
(***************************************************************************)
RECURSIVE hash1(_)
hash1(s) ==
  IF s = <<>> THEN 0
  ELSE LET h == hash1(SubSeq(s, 1, Len(s) - 1))
       IN  (h * 32) - h + s[Len(s)]

RECURSIVE hash2(_)
hash2(s) ==
  IF s = <<>> THEN 0
  ELSE LET h == hash2(SubSeq(s, 1, Len(s) - 1))
       IN  (h * 8) - h + s[Len(s)] * 31

hashDestiny(taskId) ==
  LET combinedHash == Abs(BitXor(hash1(taskId), hash2(taskId)))
      hashValue == combinedHash % HashModulus
  IN  hashValue < FailureThreshold

(* middleware/idempotency.ts: the fingerprint of a request body *)
RECURSIVE bodyHash(_)
bodyHash(body) ==
  IF body = <<>> THEN 0
  ELSE LET h == bodyHash(SubSeq(body, 1, Len(body) - 1))
       IN  (h * 32) - h + body[Len(body)]

defaultRequestHasher(body) == Abs(bodyHash(body))

(* processTask.ts: the error a task destined to fail throws *)
RECURSIVE djb2(_)
djb2(s) ==
  IF s = <<>> THEN 5381
  ELSE LET h == djb2(SubSeq(s, 1, Len(s) - 1))
       IN  (h * 32) + h + s[Len(s)]

errorTypes ==
  << [type |-> "NetworkTimeoutError", retryable |-> TRUE],
     [type |-> "ServiceUnavailableError", retryable |-> TRUE],
     [type |-> "ProcessingError", retryable |-> TRUE],
     [type |-> "ValidationError", retryable |-> FALSE],
     [type |-> "ResourceNotFoundError", retryable |-> FALSE] >>

selectedError(taskId) ==
  IF Includes(taskId, ForceFailRetry)
  THEN [type |-> "ServiceUnavailableError", retryable |-> TRUE]
  ELSE errorTypes[(Abs(djb2(taskId)) % Len(errorTypes)) + 1]

(* the error simulateTaskProcessing throws for a task destined to fail *)
simulatedError(taskId) ==
  LET e == selectedError(taskId)
  IN  [cls |-> IF e.retryable THEN "RetryableError" ELSE "NonRetryableError",
       message |-> "Simulated " \o e.type
                     \o " during task processing (DynamoDB-controlled failure)"]

(***************************************************************************)
(* DynamoService: the task table is a function from the ids of the stored  *)
(* items to the items; an item has exactly the attributes written to it.   *)
(***************************************************************************)
(* createTask as a blind PutItem, without the ConditionExpression *)
createTask_blindPut(tbl, taskRecord, t) ==
  [ok |-> TRUE,
   table |-> (taskRecord.taskId :> (taskRecord @@ [updatedAt |-> t])) @@ tbl,
   error |-> ""]

(* createTask: PutItem with ConditionExpression attribute_not_exists *)
createTask(tbl, taskRecord, t) ==
  IF taskRecord.taskId \in DOMAIN tbl
  THEN [ok |-> FALSE, table |-> tbl, error |-> "already exists"]
  ELSE [ok |-> TRUE,
        table |-> tbl @@ (taskRecord.taskId :> (taskRecord @@ [updatedAt |-> t])),
        error |-> ""]

(* updateTaskStatus as a PutItem that replaces the item by the written     *)
(* attributes                                                              *)
updateTaskStatus_replace(tbl, taskId, status, updates, t) ==
  IF taskId \notin DOMAIN tbl
  THEN [ok |-> FALSE, table |-> tbl, error |-> "not found"]
  ELSE [ok |-> TRUE,
        table |-> [tbl EXCEPT ![taskId] =
                     [taskId |-> taskId, status |-> status, updatedAt |-> t] @@ updates],
        error |-> ""]

(* UpdateItem without the condition creates the item *)
updateTaskStatus_upsert(tbl, taskId, status, updates, t) ==
  LET written == [status |-> status, updatedAt |-> t] @@ updates
  IN  [ok |-> TRUE,
       table |-> IF taskId \in DOMAIN tbl
                 THEN [tbl EXCEPT ![taskId] = written @@ tbl[taskId]]
                 ELSE tbl @@ (taskId :> ([taskId |-> taskId] @@ written)),
       error |-> ""]

(* updateTaskStatus: UpdateItem SET status, updatedAt and the supplied     *)
(* attributes, with ConditionExpression attribute_exists                   *)
updateTaskStatus(tbl, taskId, status, updates, t) ==
  IF taskId \notin DOMAIN tbl
  THEN [ok |-> FALSE, table |-> tbl, error |-> "not found"]
  ELSE LET old == tbl[taskId]
           written == [status |-> status, updatedAt |-> t] @@ updates
       IN  [ok |-> TRUE,
            table |-> [tbl EXCEPT ![taskId] = written @@ old],
            error |-> ""]

getTask(tbl, taskId) ==
  IF taskId \in DOMAIN tbl THEN {tbl[taskId]} ELSE {}

(* getFailureRateDecisionForNewTask: the shouldFail of the result; the     *)
(* scan of the table only feeds the logged statistics                      *)
getFailureRateDecisionForNewTask(taskId, scanOk) ==
  IF Includes(taskId, ForceFail) THEN TRUE
  ELSE IF Includes(taskId, ForceSuccess) THEN FALSE
  ELSE IF scanOk THEN hashDestiny(taskId)
  ELSE Len(taskId) % 10 < 3

isTaskDestinedToFail(tbl, taskId, readOk) ==
  IF Includes(taskId, ForceFail) THEN TRUE
  ELSE IF Includes(taskId, ForceSuccess) THEN FALSE
  ELSE IF readOk
       THEN \E task \in getTask(tbl, taskId) :
              "failureDestiny" \in DOMAIN task /\ task.failureDestiny = TRUE
       ELSE hashDestiny(taskId)

(***************************************************************************)
(* HTTP responses: status code and body (kind, task id, timestamp), and    *)
(* the two headers the idempotency middleware adds.                        *)
(***************************************************************************)
Response(statusCode, kind, taskId, t) ==
  [statusCode |-> statusCode, kind |-> kind, taskId |-> taskId, timestamp |-> t,
   idempotencyKeyHeader |-> FALSE, cachedHeader |-> FALSE]

NoResponse == Response(0, "none", <<>>, 0)

ResponseBody(r) == [kind |-> r.kind, taskId |-> r.taskId, timestamp |-> r.timestamp]

(***************************************************************************)
(* Idempotency middleware.  The table is keyed by the idempotency key,     *)
(* which submitTask's keyExtractor takes from the validated taskId.        *)
(***************************************************************************)
ExpirationTicks == expirationMinutes \div MinutesPerTick

(* before without the branch that returns the cached response *)
before_noReplay(tbl, idempotencyKey, requestHash, t) ==
  IF idempotencyKey \in DOMAIN tbl
  THEN LET record == tbl[idempotencyKey]
       IN  IF t > record.expiration \/ record.requestHash = requestHash
           THEN [outcome |-> "Proceed", internal |-> FALSE, response |-> NoResponse]
           ELSE [outcome |-> "Conflict", internal |-> FALSE,
                 response |-> [Response(422, "Idempotency key conflict", idempotencyKey, 0)
                                 EXCEPT !.idempotencyKeyHeader = TRUE]]
  ELSE [outcome |-> "Proceed", internal |-> TRUE, response |-> NoResponse]

(* before with the expiry test Date.now() >= record.expiration *)
before_expiryOffByOne(tbl, idempotencyKey, requestHash, t) ==
  IF idempotencyKey \in DOMAIN tbl
  THEN LET record == tbl[idempotencyKey]
       IN  IF t >= record.expiration
           THEN [outcome |-> "Proceed", internal |-> FALSE, response |-> NoResponse]
           ELSE IF record.requestHash # requestHash
           THEN [outcome |-> "Conflict", internal |-> FALSE,
                 response |-> [Response(422, "Idempotency key conflict", idempotencyKey, 0)
                                 EXCEPT !.idempotencyKeyHeader = TRUE]]
           ELSE [outcome |-> "CachedResponse", internal |-> FALSE,
                 response |-> [record.response EXCEPT !.idempotencyKeyHeader = TRUE,
                                                      !.cachedHeader = TRUE]]
  ELSE [outcome |-> "Proceed", internal |-> TRUE, response |-> NoResponse]

(* before without the test of the record's expiration *)
before_noExpiry(tbl, idempotencyKey, requestHash, t) ==
  IF idempotencyKey \in DOMAIN tbl
  THEN LET record == tbl[idempotencyKey]
       IN  IF record.requestHash # requestHash
           THEN [outcome |-> "Conflict", internal |-> FALSE,
                 response |-> [Response(422, "Idempotency key conflict", idempotencyKey, 0)
                                 EXCEPT !.idempotencyKeyHeader = TRUE]]
           ELSE [outcome |-> "CachedResponse", internal |-> FALSE,
                 response |-> [record.response EXCEPT !.idempotencyKeyHeader = TRUE,
                                                      !.cachedHeader = TRUE]]
  ELSE [outcome |-> "Proceed", internal |-> TRUE, response |-> NoResponse]

(* before: the check; internal says whether request.internal was set *)
before(tbl, idempotencyKey, requestHash, t) ==
  IF idempotencyKey \in DOMAIN tbl
  THEN LET record == tbl[idempotencyKey]
       IN  IF t > record.expiration
           THEN [outcome |-> "Proceed", internal |-> FALSE, response |-> NoResponse]
           ELSE IF record.requestHash # requestHash
           THEN [outcome |-> "Conflict", internal |-> FALSE,
                 response |-> [Response(422, "Idempotency key conflict", idempotencyKey, 0)
                                 EXCEPT !.idempotencyKeyHeader = TRUE]]
           ELSE [outcome |-> "CachedResponse", internal |-> FALSE,
                 response |-> [record.response EXCEPT !.idempotencyKeyHeader = TRUE,
                                                      !.cachedHeader = TRUE]]
  ELSE [outcome |-> "Proceed", internal |-> TRUE, response |-> NoResponse]

(* after as a blind PutItem, without the ConditionExpression *)
after_blindPut(tbl, internal, idempotencyKey, requestHash, response, t) ==
  IF ~internal \/ response = NoResponse
  THEN [table |-> tbl, store |-> "skipped", response |-> response]
  ELSE [table |-> (idempotencyKey :>
                    [id |-> idempotencyKey, response |-> response,
                     requestHash |-> requestHash,
                     expiration |-> t + ExpirationTicks, createdAt |-> t]) @@ tbl,
        store |-> "stored",
        response |-> [response EXCEPT !.idempotencyKeyHeader = TRUE]]

(* after: the store; PutItem with ConditionExpression attribute_not_exists *)
after(tbl, internal, idempotencyKey, requestHash, response, t) ==
  IF ~internal \/ response = NoResponse
  THEN [table |-> tbl, store |-> "skipped", response |-> response]
  ELSE IF idempotencyKey \in DOMAIN tbl
  THEN [table |-> tbl, store |-> "lost", response |-> response]
  ELSE [table |-> tbl @@ (idempotencyKey :>
                    [id |-> idempotencyKey, response |-> response,
                     requestHash |-> requestHash,
                     expiration |-> t + ExpirationTicks, createdAt |-> t]),
        store |-> "stored",
        response |-> [response EXCEPT !.idempotencyKeyHeader = TRUE]]

(***************************************************************************)
(* Retry decision of the queue consumer (config.isRetryable and the        *)
(* isRetryableFailure expression of processTaskMessage).                   *)
(***************************************************************************)
isRetryable(retryCount) == retryCount < maxRetries

(* isRetryableFailure without the test for NonRetryableError *)
isRetryableFailure_ignoresClass(errorCls, actualRetryCount) ==
  \/ errorCls = "RetryableError"
  \/ isRetryable(actualRetryCount)

isRetryableFailure(errorCls, actualRetryCount) ==
  \/ errorCls = "RetryableError"
  \/ (errorCls # "NonRetryableError" /\ isRetryable(actualRetryCount))

(***************************************************************************)
(* SQS.  One message per enqueued task: where it is (none, visible,        *)
(* inflight, deleted, dlq, dlqDone), its ApproximateReceiveCount, and its  *)
(* body as sendTaskMessage built it.                                       *)
(***************************************************************************)
NoMessage == [loc |-> "none", receiveCount |-> 0, body |-> <<>>]

(* how a call of the store went *)
Outcome(ok) == IF ok THEN "ok" ELSE "failed"

(* sendTaskMessage: the message body; an undefined lastError is not        *)
(* serialised                                                              *)
sendTaskMessage(taskPayload) ==
  [taskId |-> taskPayload.taskId, payload |-> taskPayload.payload,
   retryCount |-> taskPayload.retryCount, createdAt |-> taskPayload.createdAt]

(* monitorDLQ.parseDLQMessage: no failureReason attribute is set on the    *)
(* messages the pipeline sends                                             *)
parseDLQMessage(body, t) ==
  [failureReason |-> "Unknown failure", failedAt |-> t] @@ body

(* read is how the attempt's read of the task record went, scan how the
   creation's scan of the table did *)
IdleWorker ==
  [pc |-> "idle", actualRetryCount |-> 0, outcome |-> "none", errorCls |-> "none",
   read |-> "none"]

IdleRequest ==
  [pc |-> "idle", taskId |-> <<>>, body |-> <<>>, internal |-> FALSE,
   response |-> NoResponse, check |-> "none", create |-> "none",
   send |-> "none", store |-> "none", scan |-> "none"]

NoProbe == [applied |-> "none"]

Init ==
  /\ tasks = << >>
  /\ idem = << >>
  /\ req = [r \in Req |-> IdleRequest]
  /\ queue = [t \in TaskIds |-> NoMessage]
  /\ worker = [t \in TaskIds |-> IdleWorker]
  /\ now = 0
  /\ dups = 0
  /\ probe = NoProbe

(***************************************************************************)
(* submitTask, one action per middleware hook and per store or queue call. *)
(* Items of different task ids never interact (every store call is keyed   *)
(* by one taskId and every message carries one), so a behaviour follows    *)
(* the submissions of one task id, any of TaskIds.                         *)
(***************************************************************************)
Submit(r, t, b) ==
  /\ req[r].pc = "idle"
  /\ IF r = 1 THEN TRUE ELSE req[r - 1].pc # "idle"
  /\ \A x \in Req : req[x].pc # "idle" => req[x].taskId = t
  /\ req' = [req EXCEPT ![r] = [@ EXCEPT !.pc = "before", !.taskId = t, !.body = b]]
  /\ UNCHANGED <<tasks, idem, queue, worker, now, dups, probe>>

Before(r) ==
  /\ req[r].pc = "before"
  /\ LET res == before(idem, req[r].taskId, defaultRequestHasher(req[r].body), now)
     IN  req' = [req EXCEPT ![r] =
                   [@ EXCEPT !.check = res.outcome,
                             !.internal = res.internal,
                             !.response = res.response,
                             !.pc = IF res.outcome = "Proceed" THEN "create" ELSE "done"]]
  /\ UNCHANGED <<tasks, idem, queue, worker, now, dups, probe>>

CreateTaskScan(r, scanOk) ==
  /\ req[r].pc = "create"
  /\ LET taskId == req[r].taskId
         shouldFail == getFailureRateDecisionForNewTask(taskId, scanOk)
         res == createTask(tasks,
                           [taskId |-> taskId, payload |-> req[r].body,
                            status |-> PENDING, createdAt |-> now,
                            retryCount |-> 0, failureDestiny |-> shouldFail],
                           now)
     IN  /\ tasks' = res.table
         /\ req' = [req EXCEPT ![r] =
                      IF res.ok
                      THEN [@ EXCEPT !.create = "created", !.pc = "send",
                                     !.scan = Outcome(scanOk)]
                      ELSE [@ EXCEPT !.create = "exists", !.pc = "after",
                                     !.scan = Outcome(scanOk),
                                     !.response = Response(400, "already exists", taskId, now)]]
  /\ UNCHANGED <<idem, queue, worker, now, dups, probe>>

CreateTask(r) ==
  /\ req[r].pc = "create"
  /\ CreateTaskScan(r, TRUE)

SendMessageOk(r) ==
  /\ req[r].pc = "send"
  /\ LET taskId == req[r].taskId
     IN  /\ queue' = [queue EXCEPT ![taskId] =
                        [loc |-> "visible", receiveCount |-> 0,
                         body |-> sendTaskMessage([taskId |-> taskId, payload |-> req[r].body,
                                                   createdAt |-> now, retryCount |-> 0])]]
         /\ req' = [req EXCEPT ![r] =
                      [@ EXCEPT !.send = "sent", !.pc = "after",
                                !.response = Response(201, "queued", taskId, now)]]
  /\ UNCHANGED <<tasks, idem, worker, now, dups, probe>>

SendMessageFail(r) ==
  /\ req[r].pc = "send"
  /\ req' = [req EXCEPT ![r] = [@ EXCEPT !.send = "failed", !.pc = "cleanup"]]
  /\ UNCHANGED <<tasks, idem, queue, worker, now, dups, probe>>

QueueErrorMessage == "Failed to send task to queue"

(* the catch block without the updateTaskStatus call *)
Cleanup_noUpdate(r) ==
  /\ req[r].pc = "cleanup"
  /\ req' = [req EXCEPT ![r] =
               [@ EXCEPT !.pc = "after",
                         !.response = Response(500, QueueErrorMessage, req[r].taskId, now)]]
  /\ UNCHANGED <<tasks, idem, queue, worker, now, dups, probe>>

Cleanup(r) ==
  /\ req[r].pc = "cleanup"
  /\ LET taskId == req[r].taskId
         res == updateTaskStatus(tasks, taskId, FAILED,
                                 [lastError |-> "Failed to queue task: " \o QueueErrorMessage,
                                  failedAt |-> now],
                                 now)
     IN  /\ tasks' = res.table
         /\ req' = [req EXCEPT ![r] =
                      [@ EXCEPT !.pc = "after",
                                !.response = Response(500, QueueErrorMessage, taskId, now)]]
  /\ UNCHANGED <<idem, queue, worker, now, dups, probe>>

After(r) ==
  /\ req[r].pc = "after"
  /\ LET res == after(idem, req[r].internal, req[r].taskId,
                      defaultRequestHasher(req[r].body), req[r].response, now)
     IN  /\ idem' = res.table
         /\ req' = [req EXCEPT ![r] =
                      [@ EXCEPT !.store = res.store, !.response = res.response,
                                !.pc = "done"]]
  /\ UNCHANGED <<tasks, queue, worker, now, dups, probe>>

(***************************************************************************)
(* SQS delivery to processTask, and the redrive policy                     *)
(***************************************************************************)
ReceiveMessage(t) ==
  /\ queue[t].loc = "visible"
  /\ queue[t].receiveCount < maxReceiveCount
  /\ worker[t].pc = "idle"
  /\ queue' = [queue EXCEPT ![t] = [@ EXCEPT !.loc = "inflight",
                                             !.receiveCount = @ + 1]]
  /\ worker' = [worker EXCEPT ![t] =
                  [pc |-> "received",
                   actualRetryCount |-> (queue[t].receiveCount + 1) - 1,
                   outcome |-> "none", errorCls |-> "none", read |-> "none"]]
  /\ UNCHANGED <<tasks, idem, req, now, dups, probe>>

Redrive(t) ==
  /\ queue[t].loc = "visible"
  /\ queue[t].receiveCount >= maxReceiveCount
  /\ queue' = [queue EXCEPT ![t] = [@ EXCEPT !.loc = "dlq"]]
  /\ UNCHANGED <<tasks, idem, req, worker, now, dups, probe>>

(* a standard queue delivers at least once: a deleted message may be       *)
(* delivered again                                                         *)
DuplicateDelivery(t) ==
  /\ queue[t].loc = "deleted"
  /\ dups < MaxDuplicates
  /\ dups' = dups + 1
  /\ queue' = [queue EXCEPT ![t] = [@ EXCEPT !.loc = "visible"]]
  /\ UNCHANGED <<tasks, idem, req, worker, now, probe>>

(***************************************************************************)
(* processTaskMessage, one action per store call                           *)
(***************************************************************************)
(* the record is reported to SQS as failed and becomes visible again *)
ReturnFailure(t, outcome, errorCls, read) ==
  /\ worker' = [worker EXCEPT ![t] = [@ EXCEPT !.pc = "idle", !.outcome = outcome,
                                               !.errorCls = errorCls, !.read = read]]
  /\ queue' = [queue EXCEPT ![t] = [@ EXCEPT !.loc = "visible"]]

MarkProcessing(t) ==
  /\ worker[t].pc = "received"
  /\ LET res == updateTaskStatus(tasks, t, PROCESSING,
                                 [retryCount |-> worker[t].actualRetryCount], now)
     IN  /\ tasks' = res.table
         /\ IF res.ok
            THEN /\ worker' = [worker EXCEPT ![t] = [@ EXCEPT !.pc = "processing"]]
                 /\ UNCHANGED queue
            ELSE ReturnFailure(t,
                   IF isRetryableFailure("Error", worker[t].actualRetryCount)
                   THEN "Retry" ELSE "Terminal", "Error", "none")
  /\ UNCHANGED <<idem, req, now, dups, probe>>

CompleteTaskRead(t, readOk) ==
  /\ worker[t].pc = "processing"
  /\ ~isTaskDestinedToFail(tasks, t, readOk)
  /\ LET res == updateTaskStatus(tasks, t, COMPLETED,
                                 [completedAt |-> now,
                                  retryCount |-> worker[t].actualRetryCount], now)
     IN  tasks' = res.table
  /\ worker' = [worker EXCEPT ![t] = [@ EXCEPT !.pc = "idle", !.outcome = "Completed",
                                               !.read = Outcome(readOk)]]
  /\ queue' = [queue EXCEPT ![t] = [@ EXCEPT !.loc = "deleted"]]
  /\ UNCHANGED <<idem, req, now, dups, probe>>

CompleteTask(t) ==
  /\ worker[t].pc = "processing"
  /\ CompleteTaskRead(t, TRUE)

RetryTaskRead(t, readOk) ==
  /\ worker[t].pc = "processing"
  /\ isTaskDestinedToFail(tasks, t, readOk)
  /\ LET error == simulatedError(t)
     IN  /\ isRetryableFailure(error.cls, worker[t].actualRetryCount)
         /\ ReturnFailure(t, "Retry", error.cls, Outcome(readOk))
  /\ UNCHANGED <<tasks, idem, req, now, dups, probe>>

RetryTask(t) ==
  /\ worker[t].pc = "processing"
  /\ RetryTaskRead(t, TRUE)

FailTaskRead(t, readOk) ==
  /\ worker[t].pc = "processing"
  /\ isTaskDestinedToFail(tasks, t, readOk)
  /\ LET error == simulatedError(t)
         res == updateTaskStatus(tasks, t, FAILED,
                                 [lastError |-> error.message, failedAt |-> now,
                                  retryCount |-> worker[t].actualRetryCount], now)
     IN  /\ ~isRetryableFailure(error.cls, worker[t].actualRetryCount)
         /\ tasks' = res.table
         /\ ReturnFailure(t, "Terminal", error.cls, Outcome(readOk))
  /\ UNCHANGED <<idem, req, now, dups, probe>>

FailTask(t) ==
  /\ worker[t].pc = "processing"
  /\ FailTaskRead(t, TRUE)

(***************************************************************************)
(* monitorDLQ.processDLQMessage                                            *)
(***************************************************************************)
(* processDLQMessage without the updateTaskStatus call *)
ProcessDLQMessage_noUpdate(t) ==
  /\ queue[t].loc = "dlq"
  /\ queue' = [queue EXCEPT ![t] = [@ EXCEPT !.loc = "dlqDone"]]
  /\ UNCHANGED <<tasks, idem, req, worker, now, dups, probe>>

ProcessDLQMessage(t) ==
  /\ queue[t].loc = "dlq"
  /\ LET dlqMessage == parseDLQMessage(queue[t].body, now)
         lastError == IF "lastError" \in DOMAIN dlqMessage
                      THEN dlqMessage.lastError ELSE dlqMessage.failureReason
         res == updateTaskStatus(tasks, dlqMessage.taskId, DEAD_LETTER,
                                 [retryCount |-> dlqMessage.retryCount,
                                  lastError |-> lastError,
                                  failedAt |-> dlqMessage.failedAt], now)
     IN  tasks' = res.table
  /\ queue' = [queue EXCEPT ![t] = [@ EXCEPT !.loc = "dlqDone"]]
  /\ UNCHANGED <<idem, req, worker, now, dups, probe>>

(***************************************************************************)
(* Time and the store's time-to-live on the idempotency table.  A tick is  *)
(* longer than a submission (Lambda timeout 30 s) and than the deliveries  *)
(* of a message (three visibility timeouts of 180 s): the clock advances   *)
(* when no request is in progress and no message is waiting or in flight.  *)
(***************************************************************************)
Tick ==
  /\ now < MaxTime
  /\ \A r \in Req : req[r].pc \in {"idle", "done"}
  /\ \A t \in TaskIds : queue[t].loc \in {"none", "deleted", "dlqDone"}
  /\ now' = now + 1
  /\ UNCHANGED <<tasks, idem, req, queue, worker, dups, probe>>

TtlDelete(k) ==
  /\ k \in DOMAIN idem
  /\ now > idem[k].expiration
  /\ idem' = [x \in DOMAIN idem \ {k} |-> idem[x]]
  /\ UNCHANGED <<tasks, req, queue, worker, now, dups, probe>>

Next ==
  \/ \E r \in Req, t \in TaskIds, b \in Bodies : Submit(r, t, b)
  \/ \E r \in Req : Before(r)
  \/ \E r \in Req : CreateTask(r)
  \/ \E r \in Req : SendMessageOk(r)
  \/ \E r \in Req : SendMessageFail(r)
  \/ \E r \in Req : Cleanup(r)
  \/ \E r \in Req : After(r)
  \/ \E t \in TaskIds : ReceiveMessage(t)
  \/ \E t \in TaskIds : Redrive(t)
  \/ \E t \in TaskIds : DuplicateDelivery(t)
  \/ \E t \in TaskIds : MarkProcessing(t)
  \/ \E t \in TaskIds : CompleteTask(t)
  \/ \E t \in TaskIds : RetryTask(t)
  \/ \E t \in TaskIds : FailTask(t)
  \/ \E t \in TaskIds : ProcessDLQMessage(t)
  \/ \E k \in TaskIds : TtlDelete(k)
  \/ Tick

Spec == Init /\ [][Next]_vars

(* Lambda's event source mapping keeps polling both queues, and a started  *)
(* handler runs to its end: delivery, redrive and every handler step are   *)
(* weakly fair.  Nothing obliges the queue to duplicate a message or a     *)
(* client to submit.                                                       *)
Fairness ==
  \A t \in TaskIds :
    /\ WF_vars(ReceiveMessage(t))
    /\ WF_vars(Redrive(t))
    /\ WF_vars(MarkProcessing(t))
    /\ WF_vars(CompleteTask(t))
    /\ WF_vars(RetryTask(t))
    /\ WF_vars(FailTask(t))
    /\ WF_vars(ProcessDLQMessage(t))

SpecLive == Spec /\ Fairness

(* the pipeline when the queue accepts every send *)
NextDelivered ==
  \/ \E r \in Req, t \in TaskIds, b \in Bodies : Submit(r, t, b)
  \/ \E r \in Req : Before(r)
  \/ \E r \in Req : CreateTask(r)
  \/ \E r \in Req : SendMessageOk(r)
  \/ \E r \in Req : After(r)
  \/ \E t \in TaskIds : ReceiveMessage(t)
  \/ \E t \in TaskIds : Redrive(t)
  \/ \E t \in TaskIds : MarkProcessing(t)
  \/ \E t \in TaskIds : CompleteTask(t)
  \/ \E t \in TaskIds : RetryTask(t)
  \/ \E t \in TaskIds : FailTask(t)
  \/ \E t \in TaskIds : ProcessDLQMessage(t)
  \/ \E k \in TaskIds : TtlDelete(k)
  \/ Tick

SpecDelivered == Init /\ [][NextDelivered]_vars

(***************************************************************************)
(* SpecFault: the pipeline when reads of the task table may fail: the scan *)
(* of getFailureRateDecisionForNewTask at creation and the getTask of      *)
(* isTaskDestinedToFail during an attempt.  Both calls catch the error and *)
(* fall back to a computed destiny.                                        *)
(***************************************************************************)
CreateTaskScanFails(r) ==
  /\ req[r].pc = "create"
  /\ CreateTaskScan(r, FALSE)

CompleteTaskReadFails(t) ==
  /\ worker[t].pc = "processing"
  /\ CompleteTaskRead(t, FALSE)

RetryTaskReadFails(t) ==
  /\ worker[t].pc = "processing"
  /\ RetryTaskRead(t, FALSE)

FailTaskReadFails(t) ==
  /\ worker[t].pc = "processing"
  /\ FailTaskRead(t, FALSE)

NextFault ==
  \/ Next
  \/ \E r \in Req : CreateTaskScanFails(r)
  \/ \E t \in TaskIds : CompleteTaskReadFails(t)
  \/ \E t \in TaskIds : RetryTaskReadFails(t)
  \/ \E t \in TaskIds : FailTaskReadFails(t)

SpecFault == Init /\ [][NextFault]_vars

(***************************************************************************)
(* RetryStrategy.shouldRetry.  Error messages and the keywords looked for  *)
(* in them are sequences of character codes.                               *)
(***************************************************************************)
Kw_validation == <<118, 97, 108, 105, 100, 97, 116, 105, 111, 110>>
Kw_invalid == <<105, 110, 118, 97, 108, 105, 100>>
Kw_unauthorized == <<117, 110, 97, 117, 116, 104, 111, 114, 105, 122, 101, 100>>
Kw_forbidden == <<102, 111, 114, 98, 105, 100, 100, 101, 110>>

(* "validation failed", "unauthorized access", "network timeout",
   "invalid payload", "access forbidden", "Validation failed" *)
ProbeMessages ==
  { <<118, 97, 108, 105, 100, 97, 116, 105, 111, 110, 32, 102, 97, 105, 108, 101, 100>>,
    <<117, 110, 97, 117, 116, 104, 111, 114, 105, 122, 101, 100, 32, 97, 99, 99, 101, 115, 115>>,
    <<110, 101, 116, 119, 111, 114, 107, 32, 116, 105, 109, 101, 111, 117, 116>>,
    <<105, 110, 118, 97, 108, 105, 100, 32, 112, 97, 121, 108, 111, 97, 100>>,
    <<97, 99, 99, 101, 115, 115, 32, 102, 111, 114, 98, 105, 100, 100, 101, 110>>,
    <<86, 97, 108, 105, 100, 97, 116, 105, 111, 110, 32, 102, 97, 105, 108, 101, 100>> }

NoError == [cls |-> "undefined", message |-> <<>>]

shouldRetry(configMaxRetries, retryCount, error) ==
  IF retryCount >= configMaxRetries THEN FALSE
  ELSE IF error # NoError
          /\ (Includes(error.message, Kw_validation) \/ Includes(error.message, Kw_invalid))
  THEN FALSE
  ELSE IF error # NoError
          /\ (Includes(error.message, Kw_unauthorized) \/ Includes(error.message, Kw_forbidden))
  THEN FALSE
  ELSE TRUE

(***************************************************************************)
(* SpecRetry: the two retry decisions applied to drawn inputs              *)
(***************************************************************************)
ProbeErrors ==
  {NoError} \cup [cls : {"Error", "RetryableError", "NonRetryableError"},
                  message : ProbeMessages]

Decision(b) == IF b THEN "retry" ELSE "refuse"

InitRetry ==
  /\ tasks = << >>
  /\ idem = << >>
  /\ req = [r \in Req |-> IdleRequest]
  /\ queue = [t \in TaskIds |-> NoMessage]
  /\ worker = [t \in TaskIds |-> IdleWorker]
  /\ now = 0
  /\ dups = 0
  /\ probe \in [applied : {"none"},
                maxRetries : 0..MaxProbeRetries,
                retryCount : 0..MaxProbeCount,
                error : ProbeErrors,
                shouldRetry : {"unset"},
                isRetryableFailure : {"unset"}]

ApplyShouldRetry ==
  /\ probe.shouldRetry = "unset"
  /\ probe' = [probe EXCEPT
                 !.shouldRetry = Decision(shouldRetry(probe.maxRetries, probe.retryCount,
                                                      probe.error)),
                 !.applied = "shouldRetry"]
  /\ UNCHANGED <<tasks, idem, req, queue, worker, now, dups>>

(* processTaskMessage's catch block always has an error *)
ApplyIsRetryableFailure ==
  /\ probe.isRetryableFailure = "unset"
  /\ probe.error # NoError
  /\ probe' = [probe EXCEPT
                 !.isRetryableFailure = Decision(isRetryableFailure(probe.error.cls,
                                                                    probe.retryCount)),
                 !.applied = "isRetryableFailure"]
  /\ UNCHANGED <<tasks, idem, req, queue, worker, now, dups>>

NextRetry == ApplyShouldRetry \/ ApplyIsRetryableFailure

SpecRetry == InitRetry /\ [][NextRetry]_vars

(***************************************************************************)
(* Backoff delays.  A delay is a number of milliseconds that may carry a   *)
(* fraction (the visibility multiplier is 1.2 or 1.5, the jitter is a real *)
(* number), so delays are held in tenths of a millisecond and multipliers  *)
(* with one decimal in tenths.  An optional number is <<>> when absent and *)
(* <<n>> when present.                                                     *)
(***************************************************************************)
maxVisibilityDelay == 144000
DefaultVisibilityMultiplierTenths == 15
DefaultJitterMaxMs == 500
TenthsPerMs == 10

RECURSIVE Pow(_, _)
Pow(b, e) == IF e = 0 THEN 1 ELSE b * Pow(b, e - 1)

Min(a, b) == IF a <= b THEN a ELSE b

(* the pipeline at rest, while a function is applied to drawn inputs *)
PipelineIdle ==
  /\ tasks = << >>
  /\ idem = << >>
  /\ req = [r \in Req |-> IdleRequest]
  /\ queue = [t \in TaskIds |-> NoMessage]
  /\ worker = [t \in TaskIds |-> IdleWorker]
  /\ now = 0
  /\ dups = 0

RetryConfigs ==
  [ baseDelayMs : {0, 500, 1000},
    maxDelayMs : {3000, 30000, 300000},
    backoffMultiplier : {1, 2, 3},
    jitterEnabled : BOOLEAN,
    jitterMaxMs : {<<>>, <<0>>, <<2000>>},
    useVisibilityTimeout : BOOLEAN,
    visibilityTimeoutMultiplierTenths : {<<>>, <<12>>},
    strategy : {"exponential"} ]

(* Math.random() * jitterMaxMs lies in [0, jitterMaxMs) *)
Jitters(config) ==
  LET jitterMaxMs == IF config.jitterMaxMs = <<>> THEN DefaultJitterMaxMs
                     ELSE config.jitterMaxMs[1]
  IN  IF jitterMaxMs = 0 THEN {0}
      ELSE {0, (jitterMaxMs * TenthsPerMs) \div 2, jitterMaxMs * TenthsPerMs - 1}

ExponentialBackoffStrategy_noCap(retryCount, config) ==
  LET delay == config.baseDelayMs * Pow(config.backoffMultiplier, retryCount)
      visibilityMultiplier ==
        IF config.visibilityTimeoutMultiplierTenths = <<>>
        THEN DefaultVisibilityMultiplierTenths
        ELSE config.visibilityTimeoutMultiplierTenths[1]
  IN  IF config.useVisibilityTimeout
      THEN Min(delay, maxVisibilityDelay) * visibilityMultiplier
      ELSE delay * TenthsPerMs

ExponentialBackoffStrategy_additive(retryCount, config) ==
  LET delay == config.baseDelayMs * (config.backoffMultiplier * retryCount + 1)
      visibilityMultiplier ==
        IF config.visibilityTimeoutMultiplierTenths = <<>>
        THEN DefaultVisibilityMultiplierTenths
        ELSE config.visibilityTimeoutMultiplierTenths[1]
      scaled == IF config.useVisibilityTimeout
                THEN Min(delay, maxVisibilityDelay) * visibilityMultiplier
                ELSE delay * TenthsPerMs
  IN  Min(scaled, config.maxDelayMs * TenthsPerMs)

ExponentialBackoffStrategy_wraps(retryCount, config) ==
  LET delay == config.baseDelayMs * Pow(config.backoffMultiplier, retryCount)
      visibilityMultiplier ==
        IF config.visibilityTimeoutMultiplierTenths = <<>>
        THEN DefaultVisibilityMultiplierTenths
        ELSE config.visibilityTimeoutMultiplierTenths[1]
      scaled == IF config.useVisibilityTimeout
                THEN Min(delay, maxVisibilityDelay) * visibilityMultiplier
                ELSE delay * TenthsPerMs
  IN  IF scaled > config.maxDelayMs * TenthsPerMs
      THEN config.baseDelayMs * TenthsPerMs
      ELSE scaled

ExponentialBackoffStrategy(retryCount, config) ==
  LET delay == config.baseDelayMs * Pow(config.backoffMultiplier, retryCount)
      visibilityMultiplier ==
        IF config.visibilityTimeoutMultiplierTenths = <<>>
        THEN DefaultVisibilityMultiplierTenths
        ELSE config.visibilityTimeoutMultiplierTenths[1]
      scaled == IF config.useVisibilityTimeout
                THEN Min(delay, maxVisibilityDelay) * visibilityMultiplier
                ELSE delay * TenthsPerMs
  IN  Min(scaled, config.maxDelayMs * TenthsPerMs)

applyJitter(baseDelay, config, jitter) ==
  IF ~config.jitterEnabled THEN baseDelay
  ELSE Min(baseDelay + jitter, config.maxDelayMs * TenthsPerMs)

calculateBackoffDelay(retryCount, config, jitter) ==
  LET baseDelay == config.baseDelayMs * Pow(config.backoffMultiplier, retryCount)
      cappedDelay == Min(baseDelay, config.maxDelayMs) * TenthsPerMs
  IN  IF config.jitterEnabled
      THEN Min(cappedDelay + jitter, config.maxDelayMs * TenthsPerMs)
      ELSE cappedDelay

(***************************************************************************)
(* BackoffStrategyFactory: a Map from strategy name to implementation, in  *)
(* insertion order, held as a sequence of entries.                         *)
(***************************************************************************)
EXPONENTIAL == "exponential"

StrategyNames == {EXPONENTIAL, "custom", "linear"}
Implementations == {"ExponentialBackoffStrategy", "CustomBackoffStrategy"}

strategies0 == << [name |-> EXPONENTIAL, impl |-> "ExponentialBackoffStrategy"] >>

(* the documented extension: a strategy with its own delay, capped *)
CustomBackoffStrategy(retryCount, config) ==
  LET customDelay == config.baseDelayMs * TenthsPerMs
  IN  Min(customDelay, config.maxDelayMs * TenthsPerMs)

IBackoffStrategy_calculateDelay(impl, retryCount, config) ==
  IF impl = "ExponentialBackoffStrategy"
  THEN ExponentialBackoffStrategy(retryCount, config)
  ELSE CustomBackoffStrategy(retryCount, config)

Keys(strategies) == {strategies[i].name : i \in 1..Len(strategies)}

MapGet(strategies, strategyType) ==
  (CHOOSE i \in 1..Len(strategies) : strategies[i].name = strategyType)

getStrategy(strategies, strategyType) ==
  IF strategyType \in Keys(strategies)
  THEN [ok |-> TRUE, strategy |-> strategies[MapGet(strategies, strategyType)].impl,
        error |-> "none"]
  ELSE [ok |-> FALSE, strategy |-> "none", error |-> "Unknown retry strategy"]

registerStrategy_keepFirst(strategies, strategyType, strategy) ==
  IF strategyType \in Keys(strategies) THEN strategies
  ELSE Append(strategies, [name |-> strategyType, impl |-> strategy])

registerStrategy(strategies, strategyType, strategy) ==
  IF strategyType \in Keys(strategies)
  THEN [strategies EXCEPT ![MapGet(strategies, strategyType)].impl = strategy]
  ELSE Append(strategies, [name |-> strategyType, impl |-> strategy])

getAvailableStrategies(strategies) ==
  [i \in 1..Len(strategies) |-> strategies[i].name]

isStrategySupported(strategies, strategyType) == strategyType \in Keys(strategies)

(* RetryStrategy.selectStrategy takes the error type, not the configuration *)
selectStrategy(errorType) == EXPONENTIAL

calculateDelay(strategies, config, retryCount, jitter) ==
  LET strategy == selectStrategy("none")
      backoffStrategy == getStrategy(strategies, strategy)
  IN  IF ~backoffStrategy.ok
      THEN [ok |-> FALSE, delay |-> 0, impl |-> "none", error |-> backoffStrategy.error]
      ELSE [ok |-> TRUE,
            delay |-> applyJitter(
                        IBackoffStrategy_calculateDelay(backoffStrategy.strategy,
                                                        retryCount, config),
                        config, jitter),
            impl |-> backoffStrategy.strategy,
            error |-> "none"]

(***************************************************************************)
(* SpecBackoff: the three delay computations applied to drawn inputs, with *)
(* the registry as it is at start-up.                                      *)
(***************************************************************************)
InitBackoff ==
  /\ PipelineIdle
  /\ probe \in [applied : {"none"},
                config : RetryConfigs,
                attempt : 0..MaxAttempt,
                jitter : {0},
                delay : {0}]

ApplyExponentialBackoffStrategy ==
  /\ probe.applied = "none"
  /\ probe' = [probe EXCEPT
                 !.delay = ExponentialBackoffStrategy(probe.attempt, probe.config),
                 !.applied = "ExponentialBackoffStrategy"]
  /\ UNCHANGED <<tasks, idem, req, queue, worker, now, dups>>

ApplyCalculateDelay ==
  /\ probe.applied = "none"
  /\ \E jitter \in Jitters(probe.config) :
       probe' = [probe EXCEPT
                   !.delay = calculateDelay(strategies0, probe.config, probe.attempt,
                                            jitter).delay,
                   !.jitter = IF probe.config.jitterEnabled THEN jitter ELSE 0,
                   !.applied = "calculateDelay"]
  /\ UNCHANGED <<tasks, idem, req, queue, worker, now, dups>>

ApplyCalculateBackoffDelay ==
  /\ probe.applied = "none"
  /\ \E jitter \in Jitters(probe.config) :
       probe' = [probe EXCEPT
                   !.delay = calculateBackoffDelay(probe.attempt, probe.config, jitter),
                   !.jitter = IF probe.config.jitterEnabled THEN jitter ELSE 0,
                   !.applied = "calculateBackoffDelay"]
  /\ UNCHANGED <<tasks, idem, req, queue, worker, now, dups>>

NextBackoff ==
  \/ ApplyExponentialBackoffStrategy
  \/ ApplyCalculateDelay
  \/ ApplyCalculateBackoffDelay

SpecBackoff == InitBackoff /\ [][NextBackoff]_vars

(***************************************************************************)
(* SpecRegistry: the registry under registrations and lookups, and         *)
(* RetryStrategy.calculateDelay run against it.  history lists the         *)
(* registerStrategy calls made so far.                                     *)
(***************************************************************************)
RegistryConfigs ==
  [ baseDelayMs : {1000},
    maxDelayMs : {30000},
    backoffMultiplier : {2},
    jitterEnabled : {FALSE},
    jitterMaxMs : {<<>>},
    useVisibilityTimeout : {FALSE},
    visibilityTimeoutMultiplierTenths : {<<>>},
    strategy : StrategyNames ]

NoResult ==
  [name |-> "none", ok |-> TRUE, impl |-> "none", error |-> "none",
   supported |-> FALSE, available |-> << >>, delay |-> 0]

InitRegistry ==
  /\ PipelineIdle
  /\ probe \in [applied : {"none"},
                strategies : {strategies0},
                history : {<< >>},
                config : RegistryConfigs,
                attempt : 0..MaxRegistryAttempt,
                result : {NoResult}]

RegisterStrategy(strategyType, strategy) ==
  /\ Len(probe.history) < MaxRegistrations
  /\ probe' = [probe EXCEPT
                 !.strategies = registerStrategy(probe.strategies, strategyType, strategy),
                 !.history = Append(probe.history,
                                    [name |-> strategyType, impl |-> strategy]),
                 !.result = NoResult,
                 !.applied = "registerStrategy"]
  /\ UNCHANGED <<tasks, idem, req, queue, worker, now, dups>>

GetStrategy(strategyType) ==
  /\ LET got == getStrategy(probe.strategies, strategyType)
     IN  probe' = [probe EXCEPT
                     !.result = [NoResult EXCEPT !.name = strategyType, !.ok = got.ok,
                                                 !.impl = got.strategy,
                                                 !.error = got.error],
                     !.applied = "getStrategy"]
  /\ UNCHANGED <<tasks, idem, req, queue, worker, now, dups>>

IsStrategySupported(strategyType) ==
  /\ probe' = [probe EXCEPT
                 !.result = [NoResult EXCEPT
                               !.name = strategyType,
                               !.supported = isStrategySupported(probe.strategies,
                                                                 strategyType)],
                 !.applied = "isStrategySupported"]
  /\ UNCHANGED <<tasks, idem, req, queue, worker, now, dups>>

GetAvailableStrategies ==
  /\ probe' = [probe EXCEPT
                 !.result = [NoResult EXCEPT
                               !.available = getAvailableStrategies(probe.strategies)],
                 !.applied = "getAvailableStrategies"]
  /\ UNCHANGED <<tasks, idem, req, queue, worker, now, dups>>

(* new RetryStrategy(probe.config).calculateDelay(probe.attempt) *)
CalculateDelay ==
  /\ LET got == calculateDelay(probe.strategies, probe.config, probe.attempt, 0)
     IN  probe' = [probe EXCEPT
                     !.result = [NoResult EXCEPT !.name = probe.config.strategy,
                                                 !.ok = got.ok, !.impl = got.impl,
                                                 !.error = got.error,
                                                 !.delay = got.delay],
                     !.applied = "calculateDelay"]
  /\ UNCHANGED <<tasks, idem, req, queue, worker, now, dups>>

NextRegistry ==
  \/ \E n \in StrategyNames, i \in Implementations : RegisterStrategy(n, i)
  \/ \E n \in StrategyNames : GetStrategy(n)
  \/ \E n \in StrategyNames : IsStrategySupported(n)
  \/ GetAvailableStrategies
  \/ CalculateDelay

SpecRegistry == InitRegistry /\ [][NextRegistry]_vars

(***************************************************************************)
(* SpecExecute: RetryStrategy.executeWithRetry, one action per step of its *)
(* loop.  The operation is the caller's: each invocation either resolves   *)
(* or rejects with an error.  log lists the outcome of every invocation.   *)
(***************************************************************************)
(* "network timeout", "validation failed", "Validation failed" *)
OperationMessages ==
  { <<110, 101, 116, 119, 111, 114, 107, 32, 116, 105, 109, 101, 111, 117, 116>>,
    <<118, 97, 108, 105, 100, 97, 116, 105, 111, 110, 32, 102, 97, 105, 108, 101, 100>>,
    <<86, 97, 108, 105, 100, 97, 116, 105, 111, 110, 32, 102, 97, 105, 108, 101, 100>> }

ExecuteConfig ==
  [ baseDelayMs |-> 1000, maxDelayMs |-> 30000, backoffMultiplier |-> 2,
    jitterEnabled |-> FALSE, jitterMaxMs |-> << >>, useVisibilityTimeout |-> FALSE,
    visibilityTimeoutMultiplierTenths |-> << >>, strategy |-> EXPONENTIAL ]

NoOutcome == [ok |-> FALSE, message |-> << >>, invocation |-> 0]

InitExecute ==
  /\ PipelineIdle
  /\ probe \in [applied : {"none"},
                pc : {"for"},
                maxRetries : 0..MaxExecuteRetries,
                attempt : {0},
                lastError : {NoOutcome},
                thrown : {NoOutcome},
                delayMs : {0},
                log : {<< >>}]

(* for (let attempt = 0; attempt <= this.config.maxRetries; attempt++) *)
forContinues(attempt, configMaxRetries) == attempt <= configMaxRetries

retryGranted_never(attempt, configMaxRetries, lastError) == FALSE

retryGranted(attempt, configMaxRetries, lastError) ==
  attempt < configMaxRetries
    /\ shouldRetry(configMaxRetries, attempt,
                   [cls |-> "Error", message |-> lastError.message])

ExecuteFor ==
  /\ probe.pc = "for"
  /\ probe' = [probe EXCEPT
                 !.pc = IF forContinues(probe.attempt, probe.maxRetries)
                        THEN "operation" ELSE "thrown",
                 !.thrown = IF forContinues(probe.attempt, probe.maxRetries)
                            THEN NoOutcome ELSE probe.lastError,
                 !.applied = "for"]
  /\ UNCHANGED <<tasks, idem, req, queue, worker, now, dups>>

ExecuteOperation(ok, message) ==
  /\ probe.pc = "operation"
  /\ LET outcome == [ok |-> ok, message |-> IF ok THEN << >> ELSE message,
                     invocation |-> Len(probe.log) + 1]
     IN  probe' = [probe EXCEPT
                     !.log = Append(probe.log, outcome),
                     !.lastError = IF ok THEN probe.lastError ELSE outcome,
                     !.pc = IF ok THEN "returned" ELSE "catch",
                     !.applied = "operation"]
  /\ UNCHANGED <<tasks, idem, req, queue, worker, now, dups>>

ExecuteCatch ==
  /\ probe.pc = "catch"
  /\ IF retryGranted(probe.attempt, probe.maxRetries, probe.lastError)
     THEN probe' = [probe EXCEPT
                      !.delayMs = calculateDelay(strategies0, ExecuteConfig,
                                                 probe.attempt, 0).delay,
                      !.pc = "delay",
                      !.applied = "catch"]
     ELSE probe' = [probe EXCEPT
                      !.pc = "thrown",
                      !.thrown = probe.lastError,
                      !.applied = "catch"]
  /\ UNCHANGED <<tasks, idem, req, queue, worker, now, dups>>

(* await this.delay(delayMs), then attempt++ *)
ExecuteDelay ==
  /\ probe.pc = "delay"
  /\ probe' = [probe EXCEPT
                 !.attempt = probe.attempt + 1,
                 !.pc = "for",
                 !.applied = "delay"]
  /\ UNCHANGED <<tasks, idem, req, queue, worker, now, dups>>

NextExecute ==
  \/ ExecuteFor
  \/ \E ok \in BOOLEAN, message \in OperationMessages : ExecuteOperation(ok, message)
  \/ ExecuteCatch
  \/ ExecuteDelay

SpecExecute == InitExecute /\ [][NextExecute]_vars

(* the operation's promise settles and the timer of delay() fires *)
FairnessExecute == WF_vars(NextExecute)

SpecExecuteLive == SpecExecute /\ FairnessExecute

(***************************************************************************)
(* SpecStore: the task table under direct calls of DynamoService, with     *)
(* every combination of supplied attributes.  before is the table as it    *)
(* was when the last call was made.                                        *)
(***************************************************************************)
(* "b-1", "t-2" *)
StoreTaskIds == { <<98, 45, 49>>, <<116, 45, 50>> }

Optional(field, value) == { << >>, field :> value }

Updates ==
  { a @@ b @@ c @@ d :
      a \in Optional("retryCount", 1), b \in Optional("lastError", "boom"),
      c \in Optional("completedAt", 0), d \in Optional("failedAt", 0) }

NoCall ==
  [applied |-> "none", calls |-> 0, taskId |-> << >>, status |-> "none",
   updates |-> << >>, ok |-> TRUE, error |-> "", before |-> << >>]

InitStore ==
  /\ PipelineIdle
  /\ probe = NoCall

StoreCreateTask(taskId) ==
  /\ probe.calls < MaxStoreCalls
  /\ LET res == createTask(tasks,
                           [taskId |-> taskId, payload |-> << >>, status |-> PENDING,
                            createdAt |-> now, retryCount |-> 0,
                            failureDestiny |-> FALSE],
                           now)
     IN  /\ tasks' = res.table
         /\ probe' = [NoCall EXCEPT !.applied = "createTask", !.calls = probe.calls + 1,
                                    !.taskId = taskId, !.status = PENDING,
                                    !.ok = res.ok, !.error = res.error,
                                    !.before = tasks]
  /\ UNCHANGED <<idem, req, queue, worker, now, dups>>

StoreUpdateTaskStatus(taskId, status, updates) ==
  /\ probe.calls < MaxStoreCalls
  /\ LET res == updateTaskStatus(tasks, taskId, status, updates, now)
     IN  /\ tasks' = res.table
         /\ probe' = [NoCall EXCEPT !.applied = "updateTaskStatus",
                                    !.calls = probe.calls + 1,
                                    !.taskId = taskId, !.status = status,
                                    !.updates = updates,
                                    !.ok = res.ok, !.error = res.error,
                                    !.before = tasks]
  /\ UNCHANGED <<idem, req, queue, worker, now, dups>>

StoreGetTask(taskId) ==
  /\ probe.calls < MaxStoreCalls
  /\ probe' = [NoCall EXCEPT !.applied = "getTask", !.calls = probe.calls + 1,
                             !.taskId = taskId,
                             !.ok = getTask(tasks, taskId) # {},
                             !.error = IF getTask(tasks, taskId) # {} THEN ""
                                       ELSE "null",
                             !.before = tasks]
  /\ UNCHANGED <<tasks, idem, req, queue, worker, now, dups>>

NextStore ==
  \/ \E taskId \in StoreTaskIds : StoreCreateTask(taskId)
  \/ \E taskId \in StoreTaskIds, status \in TaskStatus, updates \in Updates :
       StoreUpdateTaskStatus(taskId, status, updates)
  \/ \E taskId \in StoreTaskIds : StoreGetTask(taskId)

SpecStore == InitStore /\ [][NextStore]_vars

(***************************************************************************)
(* SQSVisibilityService.  queueAttributes is <<>> while nothing is cached  *)
(* and <<attributes>> afterwards; attributes.VisibilityTimeout is <<>>     *)
(* when the queue's answer carries no such attribute.  A query of the      *)
(* queue either answers (queryOk) with response, or throws.                *)
(***************************************************************************)
maxVisibilityTimeout == 43200
FallbackVisibilityTimeout == 180
MsPerSecond == 1000
DefaultServiceMaxRetries == 3

(* Math.ceil(a / b) for non-negative a and positive b *)
Ceil(a, b) == (a + b - 1) \div b

Max(a, b) == IF a >= b THEN a ELSE b

QueueResponses == { [VisibilityTimeout |-> << >>], [VisibilityTimeout |-> <<180>>],
                    [VisibilityTimeout |-> <<30>>] }

(* the configuration calculateVisibilityTimeout builds, over the default
   configuration, which sets no jitterMaxMs *)
VisibilityRetryConfig ==
  [ baseDelayMs |-> 1000,
    maxDelayMs |-> 30000,
    backoffMultiplier |-> 2,
    jitterEnabled |-> TRUE,
    jitterMaxMs |-> << >>,
    useVisibilityTimeout |-> TRUE,
    visibilityTimeoutMultiplierTenths |-> <<12>>,
    strategy |-> EXPONENTIAL ]

getQueueAttributes(queueAttributes, queryOk, response) ==
  IF queueAttributes # << >>
  THEN [ok |-> TRUE, queried |-> FALSE, attributes |-> queueAttributes[1],
        queueAttributes |-> queueAttributes]
  ELSE IF queryOk
  THEN [ok |-> TRUE, queried |-> TRUE, attributes |-> response,
        queueAttributes |-> <<response>>]
  ELSE [ok |-> FALSE, queried |-> TRUE, attributes |-> [VisibilityTimeout |-> << >>],
        queueAttributes |-> queueAttributes]

(* Math.floor in place of Math.ceil *)
calculateVisibilityTimeout_floor(queueAttributes, retryCount, queryOk, response, jitter) ==
  LET got == getQueueAttributes(queueAttributes, queryOk, response)
      delayMs == calculateDelay(strategies0, VisibilityRetryConfig, retryCount,
                                jitter).delay
      visibilityTimeoutSeconds == delayMs \div (MsPerSecond * TenthsPerMs)
  IN  IF ~got.ok
      THEN [ok |-> FALSE, queried |-> got.queried, timeout |-> 0, delayMs |-> 0,
            defaultVisibilityTimeout |-> 0, queueAttributes |-> got.queueAttributes]
      ELSE [ok |-> TRUE, queried |-> got.queried,
            timeout |-> Min(Max(visibilityTimeoutSeconds, 1), maxVisibilityTimeout),
            delayMs |-> delayMs,
            defaultVisibilityTimeout |->
              IF got.attributes.VisibilityTimeout = << >>
              THEN FallbackVisibilityTimeout
              ELSE got.attributes.VisibilityTimeout[1],
            queueAttributes |-> got.queueAttributes]

calculateVisibilityTimeout(queueAttributes, retryCount, queryOk, response, jitter) ==
  LET got == getQueueAttributes(queueAttributes, queryOk, response)
      delayMs == calculateDelay(strategies0, VisibilityRetryConfig, retryCount,
                                jitter).delay
      visibilityTimeoutSeconds == Ceil(delayMs, MsPerSecond * TenthsPerMs)
  IN  IF ~got.ok
      THEN [ok |-> FALSE, queried |-> got.queried, timeout |-> 0, delayMs |-> 0,
            defaultVisibilityTimeout |-> 0, queueAttributes |-> got.queueAttributes]
      ELSE [ok |-> TRUE, queried |-> got.queried,
            timeout |-> Min(Max(visibilityTimeoutSeconds, 1), maxVisibilityTimeout),
            delayMs |-> delayMs,
            defaultVisibilityTimeout |->
              IF got.attributes.VisibilityTimeout = << >>
              THEN FallbackVisibilityTimeout
              ELSE got.attributes.VisibilityTimeout[1],
            queueAttributes |-> got.queueAttributes]

(* ok is FALSE when the call throws: the computation of the timeout threw,
   or the ChangeMessageVisibility command did *)
changeMessageVisibility(queueAttributes, retryCount, queryOk, response, jitter, changeOk) ==
  LET computed == calculateVisibilityTimeout(queueAttributes, retryCount, queryOk,
                                             response, jitter)
  IN  [ok |-> computed.ok /\ changeOk,
       queried |-> computed.queried,
       computed |-> computed.ok,
       sent |-> computed.ok,
       visibilityTimeout |-> computed.timeout,
       delayMs |-> computed.delayMs,
       queueAttributes |-> computed.queueAttributes]

retryWithVisibilityTimeout(queueAttributes, retryCount, maxRetries_, queryOk, response, jitter, changeOk) ==
  IF retryCount >= maxRetries_
  THEN [granted |-> FALSE, queried |-> FALSE, computed |-> FALSE, sent |-> FALSE,
        visibilityTimeout |-> 0, delayMs |-> 0, queueAttributes |-> queueAttributes]
  ELSE LET changed == changeMessageVisibility(queueAttributes, retryCount, queryOk,
                                              response, jitter, changeOk)
       IN  [granted |-> changed.ok, queried |-> changed.queried,
            computed |-> changed.computed, sent |-> changed.sent,
            visibilityTimeout |-> changed.visibilityTimeout,
            delayMs |-> changed.delayMs,
            queueAttributes |-> changed.queueAttributes]

(***************************************************************************)
(* SpecVisibility: one SQSVisibilityService instance under calls with      *)
(* drawn retry counts, queue answers and jitter.                           *)
(***************************************************************************)
NoVisibilityCall ==
  [applied |-> "none", calls |-> 0, queueAttributes |-> << >>, cachedBefore |-> FALSE,
   retryCount |-> 0, maxRetries |-> 0, queryOk |-> TRUE, changeOk |-> TRUE,
   jitter |-> 0, ok |-> TRUE, queried |-> FALSE, computed |-> FALSE, sent |-> FALSE,
   timeout |-> 0, delayMs |-> 0]

InitVisibility ==
  /\ PipelineIdle
  /\ probe = NoVisibilityCall

GetQueueAttributes(queryOk, response) ==
  /\ probe.calls < MaxVisibilityCalls
  /\ LET got == getQueueAttributes(probe.queueAttributes, queryOk, response)
     IN  probe' = [NoVisibilityCall EXCEPT
                     !.applied = "getQueueAttributes",
                     !.calls = probe.calls + 1,
                     !.queueAttributes = got.queueAttributes,
                     !.cachedBefore = probe.queueAttributes # << >>,
                     !.queryOk = queryOk,
                     !.ok = got.ok,
                     !.queried = got.queried]
  /\ UNCHANGED <<tasks, idem, req, queue, worker, now, dups>>

CalculateVisibilityTimeout(retryCount, queryOk, response, jitter) ==
  /\ probe.calls < MaxVisibilityCalls
  /\ LET got == calculateVisibilityTimeout(probe.queueAttributes, retryCount, queryOk,
                                           response, jitter)
     IN  probe' = [NoVisibilityCall EXCEPT
                     !.applied = "calculateVisibilityTimeout",
                     !.calls = probe.calls + 1,
                     !.queueAttributes = got.queueAttributes,
                     !.cachedBefore = probe.queueAttributes # << >>,
                     !.retryCount = retryCount,
                     !.queryOk = queryOk,
                     !.jitter = jitter,
                     !.ok = got.ok,
                     !.queried = got.queried,
                     !.computed = got.ok,
                     !.timeout = got.timeout,
                     !.delayMs = got.delayMs]
  /\ UNCHANGED <<tasks, idem, req, queue, worker, now, dups>>

RetryWithVisibilityTimeout(retryCount, maxRetries_, queryOk, response, jitter, changeOk) ==
  /\ probe.calls < MaxVisibilityCalls
  /\ LET got == retryWithVisibilityTimeout(probe.queueAttributes, retryCount,
                                           maxRetries_, queryOk, response, jitter,
                                           changeOk)
     IN  probe' = [NoVisibilityCall EXCEPT
                     !.applied = "retryWithVisibilityTimeout",
                     !.calls = probe.calls + 1,
                     !.queueAttributes = got.queueAttributes,
                     !.cachedBefore = probe.queueAttributes # << >>,
                     !.retryCount = retryCount,
                     !.maxRetries = maxRetries_,
                     !.queryOk = queryOk,
                     !.changeOk = changeOk,
                     !.jitter = jitter,
                     !.ok = got.granted,
                     !.queried = got.queried,
                     !.computed = got.computed,
                     !.sent = got.sent,
                     !.timeout = got.visibilityTimeout,
                     !.delayMs = got.delayMs]
  /\ UNCHANGED <<tasks, idem, req, queue, worker, now, dups>>

NextVisibility ==
  \/ \E queryOk \in BOOLEAN, response \in QueueResponses :
       GetQueueAttributes(queryOk, response)
  \/ \E retryCount \in 0..MaxAttempt, queryOk \in BOOLEAN, response \in QueueResponses,
        jitter \in Jitters(VisibilityRetryConfig) :
       CalculateVisibilityTimeout(retryCount, queryOk, response, jitter)
  \/ \E retryCount \in 0..MaxVisibilityRetryCount,
        maxRetries_ \in {DefaultServiceMaxRetries, maxRetries},
        queryOk \in BOOLEAN, response \in QueueResponses,
        jitter \in Jitters(VisibilityRetryConfig), changeOk \in BOOLEAN :
       RetryWithVisibilityTimeout(retryCount, maxRetries_, queryOk, response, jitter,
                                  changeOk)

SpecVisibility == InitVisibility /\ [][NextVisibility]_vars

(***************************************************************************)
(* CloudWatchService.classifyError.  Messages and keywords are sequences   *)
(* of character codes.                                                     *)
(***************************************************************************)
Kw_malformed == <<109, 97, 108, 102, 111, 114, 109, 101, 100>>
Kw_network == <<110, 101, 116, 119, 111, 114, 107>>
Kw_connection == <<99, 111, 110, 110, 101, 99, 116, 105, 111, 110>>
Kw_timeout == <<116, 105, 109, 101, 111, 117, 116>>
Kw_throttl == <<116, 104, 114, 111, 116, 116, 108>>
Kw_rate == <<114, 97, 116, 101>>
Kw_limit == <<108, 105, 109, 105, 116>>
Kw_system == <<115, 121, 115, 116, 101, 109>>
Kw_internal == <<105, 110, 116, 101, 114, 110, 97, 108>>
Kw_server == <<115, 101, 114, 118, 101, 114>>

(* String.prototype.toLowerCase on the letters A-Z *)
toLowerCase(s) == [i \in 1..Len(s) |-> IF s[i] \in 65..90 THEN s[i] + 32 ELSE s[i]]

Classification(category, severity, retryable, suggestedAction) ==
  [category |-> category, severity |-> severity, isRetryable |-> retryable,
   suggestedAction |-> suggestedAction]

(* the SYSTEM rule tried before the NETWORK rule *)
classifyError_systemFirst(errorMessage, retryCount) ==
  LET message == toLowerCase(errorMessage)
  IN  IF Includes(message, Kw_validation) \/ Includes(message, Kw_invalid)
         \/ Includes(message, Kw_malformed)
      THEN Classification("VALIDATION", "MEDIUM", FALSE,
                          "Review and fix input data validation")
      ELSE IF Includes(message, Kw_system) \/ Includes(message, Kw_internal)
              \/ Includes(message, Kw_server)
      THEN Classification("SYSTEM", "HIGH", TRUE,
                          "Check system health and resource availability")
      ELSE IF Includes(message, Kw_network) \/ Includes(message, Kw_connection)
              \/ Includes(message, Kw_timeout)
      THEN Classification("NETWORK", IF retryCount > 2 THEN "HIGH" ELSE "MEDIUM", TRUE,
                          "Check network connectivity and service availability")
      ELSE IF Includes(message, Kw_throttl) \/ Includes(message, Kw_rate)
              \/ Includes(message, Kw_limit)
      THEN Classification("RATE_LIMIT", "MEDIUM", TRUE,
                          "Implement exponential backoff or reduce request rate")
      ELSE Classification("UNKNOWN", IF retryCount > 1 THEN "HIGH" ELSE "MEDIUM",
                          retryCount < 3, "Manual investigation required")

classifyError(errorMessage, retryCount) ==
  LET message == toLowerCase(errorMessage)
  IN  IF Includes(message, Kw_validation) \/ Includes(message, Kw_invalid)
         \/ Includes(message, Kw_malformed)
      THEN Classification("VALIDATION", "MEDIUM", FALSE,
                          "Review and fix input data validation")
      ELSE IF Includes(message, Kw_network) \/ Includes(message, Kw_connection)
              \/ Includes(message, Kw_timeout)
      THEN Classification("NETWORK", IF retryCount > 2 THEN "HIGH" ELSE "MEDIUM", TRUE,
                          "Check network connectivity and service availability")
      ELSE IF Includes(message, Kw_throttl) \/ Includes(message, Kw_rate)
              \/ Includes(message, Kw_limit)
      THEN Classification("RATE_LIMIT", "MEDIUM", TRUE,
                          "Implement exponential backoff or reduce request rate")
      ELSE IF Includes(message, Kw_system) \/ Includes(message, Kw_internal)
              \/ Includes(message, Kw_server)
      THEN Classification("SYSTEM", "HIGH", TRUE,
                          "Check system health and resource availability")
      ELSE Classification("UNKNOWN", IF retryCount > 1 THEN "HIGH" ELSE "MEDIUM",
                          retryCount < 3, "Manual investigation required")

(***************************************************************************)
(* SpecClassify: classifyError applied to drawn messages and retry counts. *)
(* A message is one word or two words with a space between them; the words *)
(* are the twelve keywords, three of them in other letter cases, and words *)
(* that hold no keyword.                                                   *)
(***************************************************************************)
(* "validation", "invalid", "malformed", "network", "connection", "timeout", "throttl", "rate", "limit", "system", "internal", "server", "Connection", "TIMEOUT", "Invalid", "Server", "oops", "task failed" *)
ClassifyWords ==
  { <<118, 97, 108, 105, 100, 97, 116, 105, 111, 110>>,
    <<105, 110, 118, 97, 108, 105, 100>>,
    <<109, 97, 108, 102, 111, 114, 109, 101, 100>>,
    <<110, 101, 116, 119, 111, 114, 107>>,
    <<99, 111, 110, 110, 101, 99, 116, 105, 111, 110>>,
    <<116, 105, 109, 101, 111, 117, 116>>,
    <<116, 104, 114, 111, 116, 116, 108>>,
    <<114, 97, 116, 101>>,
    <<108, 105, 109, 105, 116>>,
    <<115, 121, 115, 116, 101, 109>>,
    <<105, 110, 116, 101, 114, 110, 97, 108>>,
    <<115, 101, 114, 118, 101, 114>>,
    <<67, 111, 110, 110, 101, 99, 116, 105, 111, 110>>,
    <<84, 73, 77, 69, 79, 85, 84>>,
    <<73, 110, 118, 97, 108, 105, 100>>,
    <<83, 101, 114, 118, 101, 114>>,
    <<111, 111, 112, 115>>,
    <<116, 97, 115, 107, 32, 102, 97, 105, 108, 101, 100>> }

ClassifyMessages ==
  ClassifyWords \cup { a \o <<32>> \o b : a \in ClassifyWords, b \in ClassifyWords }

NoClassification == Classification("none", "none", FALSE, "none")

InitClassify ==
  /\ PipelineIdle
  /\ probe \in [applied : {"none"},
                message : ClassifyMessages,
                retryCount : 0..MaxProbeCount,
                classification : {NoClassification}]

ApplyClassifyError ==
  /\ probe.applied = "none"
  /\ probe' = [probe EXCEPT
                 !.classification = classifyError(probe.message, probe.retryCount),
                 !.applied = "classifyError"]
  /\ UNCHANGED <<tasks, idem, req, queue, worker, now, dups>>

NextClassify == ApplyClassifyError

SpecClassify == InitClassify /\ [][NextClassify]_vars

(***************************************************************************)
(* DLQ log entries.  A JSON object is the sequence of its <<key, value>>   *)
(* pairs in Object.entries order; a value is [str |-> characters],         *)
(* [obj |-> pairs] or [arr |-> values].                                    *)
(***************************************************************************)
Sk_password == <<112, 97, 115, 115, 119, 111, 114, 100>>
Sk_token == <<116, 111, 107, 101, 110>>
Sk_secret == <<115, 101, 99, 114, 101, 116>>
Sk_key == <<107, 101, 121>>
Sk_auth == <<97, 117, 116, 104>>
Sk_credential == <<99, 114, 101, 100, 101, 110, 116, 105, 97, 108>>

sensitiveKeys == <<Sk_password, Sk_token, Sk_secret, Sk_key, Sk_auth, Sk_credential>>

(* '[REDACTED]' *)
REDACTED == <<91, 82, 69, 68, 65, 67, 84, 69, 68, 93>>

(* 'Unknown failure' *)
UnknownFailure == <<85, 110, 107, 110, 111, 119, 110, 32, 102, 97, 105, 108, 117, 114, 101>>

(* Number.prototype.toString for a non-negative integer *)
RECURSIVE numberToString(_)
numberToString(n) == IF n < 10 THEN <<48 + n>> ELSE numberToString(n \div 10) \o <<48 + (n % 10)>>

(* typeof value === 'object' && value !== null *)
IsObject(value) == "obj" \in DOMAIN value \/ "arr" \in DOMAIN value

(* Object.entries: own pairs of an object, index and element of an array *)
ObjectEntries(value) ==
  IF "obj" \in DOMAIN value THEN value.obj
  ELSE [i \in 1..Len(value.arr) |-> <<numberToString(i - 1), value.arr[i]>>]

ObjectKeys(pairs) == [i \in 1..Len(pairs) |-> pairs[i][1]]

isSensitiveKey(key) ==
  LET keyLower == toLowerCase(key)
  IN  \E i \in 1..Len(sensitiveKeys) : Includes(keyLower, sensitiveKeys[i])

RECURSIVE sanitizePayload(_)
sanitizePayload(payload) ==
  [i \in 1..Len(payload) |->
     LET key == payload[i][1]
         value == payload[i][2]
     IN  IF isSensitiveKey(key) THEN <<key, [str |-> REDACTED]>>
         ELSE IF IsObject(value)
         THEN <<key, [obj |-> sanitizePayload(ObjectEntries(value))]>>
         ELSE <<key, value>>]

(* JSON.stringify(value).length; the strings of the model need no escapes *)
RECURSIVE JsonLength(_)
RECURSIVE JsonSum(_, _)
JsonSum(items, keyed) ==
  IF items = << >> THEN 0
  ELSE (IF keyed THEN Len(items[1][1]) + 3 + JsonLength(items[1][2])
        ELSE JsonLength(items[1]))
       + (IF Len(items) > 1 THEN 1 ELSE 0)
       + JsonSum(Tail(items), keyed)

JsonLength(value) ==
  IF "str" \in DOMAIN value THEN Len(value.str) + 2
  ELSE IF "obj" \in DOMAIN value THEN 2 + JsonSum(value.obj, TRUE)
  ELSE 2 + JsonSum(value.arr, FALSE)

(* a || b on strings: the empty string and undefined (<<>>) are falsy *)
OrElse(a, b) == IF a = << >> THEN b ELSE a

(* monitorDLQ.parseDLQMessage on a record whose body parses; body.lastError
   and the failureReason message attribute are << >> when absent *)
parseDLQRecord(record, t) ==
  [taskId |-> record.body.taskId,
   payload |-> record.body.payload,
   retryCount |-> record.body.retryCount,
   createdAt |-> record.body.createdAt,
   lastError |-> record.body.lastError,
   failureReason |-> OrElse(record.failureReason, UnknownFailure),
   originalMessageId |-> record.messageId,
   failedAt |-> t]

createDLQLogEntry(dlqMessage, sqsRecord, t) ==
  [timestamp |-> t,
   taskId |-> dlqMessage.taskId,
   originalMessageId |-> dlqMessage.originalMessageId,
   failureReason |-> dlqMessage.failureReason,
   lastError |-> OrElse(dlqMessage.lastError, dlqMessage.failureReason),
   retryCount |-> dlqMessage.retryCount,
   failedAt |-> dlqMessage.failedAt,
   createdAt |-> dlqMessage.createdAt,
   payload |-> [size |-> JsonLength([obj |-> dlqMessage.payload]),
                keys |-> ObjectKeys(dlqMessage.payload),
                data |-> dlqMessage.payload,
                sanitized |-> sanitizePayload(dlqMessage.payload)],
   sqsMessageInfo |-> [messageId |-> sqsRecord.messageId,
                       approximateReceiveCount |-> sqsRecord.receiveCount],
   errorClassification |->
     classifyError(OrElse(dlqMessage.lastError, dlqMessage.failureReason),
                   dlqMessage.retryCount),
   processingMetrics |-> [firstAttemptAt |-> dlqMessage.createdAt,
                          lastAttemptAt |-> dlqMessage.failedAt,
                          retryDelays |-> << >>]]

(***************************************************************************)
(* CloudWatchService.generateDLQAnalytics.  Times are milliseconds.  A     *)
(* quotient a / b is held exactly, as the pair of its lowest terms.        *)
(***************************************************************************)
DefaultTimeWindowMs == 3600000
MsPerHour == 3600000
ErrorPrefixLength == 100
TopErrorsLimit == 10

RECURSIVE GCD(_, _)
GCD(a, b) == IF b = 0 THEN a ELSE GCD(b, a % b)

Quotient(a, b) == IF a = 0 THEN <<0, 1>> ELSE <<a \div GCD(a, b), b \div GCD(a, b)>>

(* Array.prototype.filter *)
Filter(seq, Keep(_)) == SelectSeq(seq, Keep)

(* entries.reduce((acc, entry) => { acc[key] = (acc[key] || 0) + 1 }, {}) over
   the keys of the entries *)
RECURSIVE CountKeys(_)
CountKeys(keys) ==
  IF keys = << >> THEN << >>
  ELSE LET acc == CountKeys(SubSeq(keys, 1, Len(keys) - 1))
           key == keys[Len(keys)]
       IN  IF key \in DOMAIN acc THEN [acc EXCEPT ![key] = @ + 1]
           ELSE acc @@ (key :> 1)

(* Object.entries of such an accumulator whose keys are not integers: the
   keys in the order they were first set *)
RECURSIVE FirstSeen(_)
FirstSeen(keys) ==
  IF keys = << >> THEN << >>
  ELSE LET before_ == FirstSeen(SubSeq(keys, 1, Len(keys) - 1))
           key == keys[Len(keys)]
       IN  IF \E i \in 1..Len(before_) : before_[i] = key THEN before_
           ELSE Append(before_, key)

(* Array.prototype.sort((a, b) => b.count - a.count), which is stable *)
SortByCountDescending(items) ==
  LET rank(i) == Cardinality({j \in 1..Len(items) :
                                \/ items[j].count > items[i].count
                                \/ (items[j].count = items[i].count /\ j < i)}) + 1
  IN  [p \in 1..Len(items) |-> items[CHOOSE i \in 1..Len(items) : rank(i) = p]]

RECURSIVE SumSeq(_)
SumSeq(numbers) == IF numbers = << >> THEN 0 ELSE numbers[1] + SumSeq(Tail(numbers))

RECURSIVE MaxSeq(_, _)
MaxSeq(numbers, least) ==
  IF numbers = << >> THEN least ELSE MaxSeq(Tail(numbers), Max(numbers[1], least))

Map(seq, F(_)) == [i \in 1..Len(seq) |-> F(seq[i])]

(* the window is not applied: every entry of the batch is aggregated *)
entriesInWindow_all(dlqEntries, windowStart) == dlqEntries

entriesInWindow(dlqEntries, windowStart) ==
  LET inWindow(entry) == entry.timestamp >= windowStart
  IN  Filter(dlqEntries, inWindow)

(* t is what new Date() answers when the function is entered *)
generateDLQAnalytics(dlqEntries, timeWindowMs, t) ==
  LET windowStart == t - timeWindowMs
      inWindow == entriesInWindow(dlqEntries, windowStart)
      taskIdOf(entry) == entry.taskId
      sizeOf(entry) == entry.payload.size
      retryCountOf(entry) == entry.retryCount
      categoryOf(entry) == entry.errorClassification.category
      severityOf(entry) == entry.errorClassification.severity
      retryKeyOf(entry) == numberToString(entry.retryCount)
      errorOf(entry) == SubSeq(entry.lastError, 1,
                               Min(ErrorPrefixLength, Len(entry.lastError)))
      uniqueTasks == Cardinality({taskIdOf(inWindow[i]) : i \in 1..Len(inWindow)})
      totalPayloadSize == SumSeq(Map(inWindow, sizeOf))
      retryCountSum == SumSeq(Map(inWindow, retryCountOf))
      maxRetryCount == MaxSeq(Map(inWindow, retryCountOf), 0)
      errorCounts == CountKeys(Map(inWindow, errorOf))
      errorOrder == FirstSeen(Map(inWindow, errorOf))
      errorItems == [i \in 1..Len(errorOrder) |->
                       [error |-> errorOrder[i], count |-> errorCounts[errorOrder[i]]]]
      sorted == SortByCountDescending(errorItems)
      top == SubSeq(sorted, 1, Min(TopErrorsLimit, Len(sorted)))
  IN  [timeWindow |-> [start |-> windowStart, end |-> t, durationMs |-> timeWindowMs],
       summary |->
         [totalMessages |-> Len(inWindow),
          uniqueTasks |-> uniqueTasks,
          averageRetryCount |-> IF Len(inWindow) > 0
                                THEN Quotient(retryCountSum, Len(inWindow))
                                ELSE Quotient(0, 1),
          maxRetryCount |-> maxRetryCount,
          totalPayloadSize |-> totalPayloadSize,
          averagePayloadSize |-> IF Len(inWindow) > 0
                                 THEN Quotient(totalPayloadSize, Len(inWindow))
                                 ELSE Quotient(0, 1)],
       errorBreakdown |->
         [byCategory |-> CountKeys(Map(inWindow, categoryOf)),
          bySeverity |-> CountKeys(Map(inWindow, severityOf)),
          byRetryCount |-> CountKeys(Map(inWindow, retryKeyOf)),
          topErrors |-> [i \in 1..Len(top) |->
                           [error |-> top[i].error, count |-> top[i].count,
                            percentage |-> Quotient(top[i].count * 100,
                                                    Len(inWindow))]]],
       trends |-> [messagesPerHour |-> Quotient(Len(inWindow) * MsPerHour,
                                                timeWindowMs)]]

(***************************************************************************)
(* SpecAnalytics: DLQ entries are created as the clock stands, the clock   *)
(* advances, and the batch is aggregated, more than once, over a window.   *)
(***************************************************************************)
AnalyticsTickMs == 1800000

TimeWindows == {DefaultTimeWindowMs, AnalyticsTickMs}

(* {"user":"bob"} *)
AnalyticsPayload == << <<<<117, 115, 101, 114>>, [str |-> <<98, 111, 98>>]>> >>

(* the dead-lettered messages entries are made from: "network timeout" after
   3 retries (b-1) and after none (t-2), "invalid payload" after 2 (b-1), and a
   message without lastError after 2 (t-2) *)
AnalyticsRecords ==
  { [messageId |-> "m-1", receiveCount |-> 4, failureReason |-> << >>,
     body |-> [taskId |-> <<98, 45, 49>>, payload |-> AnalyticsPayload, retryCount |-> 3,
               createdAt |-> 0, lastError |-> <<110, 101, 116, 119, 111, 114, 107, 32, 116, 105, 109, 101, 111, 117, 116>>]],
    [messageId |-> "m-2", receiveCount |-> 1, failureReason |-> << >>,
     body |-> [taskId |-> <<116, 45, 50>>, payload |-> AnalyticsPayload, retryCount |-> 0,
               createdAt |-> 0, lastError |-> <<110, 101, 116, 119, 111, 114, 107, 32, 116, 105, 109, 101, 111, 117, 116>>]],
    [messageId |-> "m-3", receiveCount |-> 3, failureReason |-> << >>,
     body |-> [taskId |-> <<98, 45, 49>>, payload |-> AnalyticsPayload, retryCount |-> 2,
               createdAt |-> 0, lastError |-> <<105, 110, 118, 97, 108, 105, 100, 32, 112, 97, 121, 108, 111, 97, 100>>]],
    [messageId |-> "m-4", receiveCount |-> 3, failureReason |-> << >>,
     body |-> [taskId |-> <<116, 45, 50>>, payload |-> AnalyticsPayload, retryCount |-> 2,
               createdAt |-> 0, lastError |-> << >>]] }

NoReport == [window |-> 0, clock |-> 0, report |-> << >>]

InitAnalytics ==
  /\ PipelineIdle
  /\ probe = [applied |-> "none", clock |-> 0, entries |-> << >>, calls |-> 0,
              last |-> NoReport, previous |-> NoReport]

(* an entry is made for a dead-lettered message; the batch is complete once
   it has been aggregated *)
CreateDLQLogEntry(record) ==
  /\ Len(probe.entries) < MaxEntries
  /\ probe.calls = 0
  /\ probe' = [probe EXCEPT
                 !.entries = Append(@, createDLQLogEntry(
                                         parseDLQRecord(record, probe.clock),
                                         record, probe.clock)),
                 !.applied = "createDLQLogEntry"]
  /\ UNCHANGED <<tasks, idem, req, queue, worker, now, dups>>

AnalyticsTick ==
  /\ probe.clock < MaxAnalyticsTicks * AnalyticsTickMs
  /\ probe' = [probe EXCEPT !.clock = @ + AnalyticsTickMs, !.applied = "tick"]
  /\ UNCHANGED <<tasks, idem, req, queue, worker, now, dups>>

GenerateDLQAnalytics(timeWindowMs) ==
  /\ probe.calls < MaxAnalyticsCalls
  /\ probe' = [probe EXCEPT
                 !.previous = probe.last,
                 !.last = [window |-> timeWindowMs, clock |-> probe.clock,
                           report |-> generateDLQAnalytics(probe.entries, timeWindowMs,
                                                           probe.clock)],
                 !.calls = @ + 1,
                 !.applied = "generateDLQAnalytics"]
  /\ UNCHANGED <<tasks, idem, req, queue, worker, now, dups>>

NextAnalytics ==
  \/ \E record \in AnalyticsRecords : CreateDLQLogEntry(record)
  \/ AnalyticsTick
  \/ \E timeWindowMs \in TimeWindows : GenerateDLQAnalytics(timeWindowMs)

SpecAnalytics == InitAnalytics /\ [][NextAnalytics]_vars

(***************************************************************************)
(* monitorDLQ over CloudWatchService.  The log sink is the CloudWatch Logs *)
(* client; each of its commands either succeeds or throws.  A metric is    *)
(* written to the function's own log and makes no call of the sink.        *)
(***************************************************************************)
SinkOutcomes ==
  [createLogGroup : BOOLEAN, createLogStream : BOOLEAN, putEntry : BOOLEAN,
   putAnalytics : BOOLEAN]

AllSinkCallsSucceed ==
  [createLogGroup |-> TRUE, createLogStream |-> TRUE, putEntry |-> TRUE,
   putAnalytics |-> TRUE]

(* both commands' errors are caught where they are sent *)
initializeDLQLogStream(logStreamInitialized, sink) == TRUE

(* the PutLogEvents error leaves the function *)
logComprehensiveDLQEntry_rethrows(logStreamInitialized, dlqEntry, sink) ==
  [logStreamInitialized |-> initializeDLQLogStream(logStreamInitialized, sink),
   written |-> IF sink.putEntry
               THEN << [event |-> "dlq_entry", entry |-> dlqEntry] >>
               ELSE << >>,
   metrics |-> IF sink.putEntry THEN 3 ELSE 0,
   threw |-> ~sink.putEntry]

(* JSON.stringify(dlqEntry) keeps every member of the entry: the log event
   is held as the entry itself *)
logComprehensiveDLQEntry(logStreamInitialized, dlqEntry, sink) ==
  [logStreamInitialized |-> initializeDLQLogStream(logStreamInitialized, sink),
   written |-> IF sink.putEntry
               THEN << [event |-> "dlq_entry", entry |-> dlqEntry] >>
               ELSE << >>,
   metrics |-> IF sink.putEntry THEN 3 ELSE 0,
   threw |-> FALSE]

logDLQAnalytics(logStreamInitialized, analytics, sink) ==
  [logStreamInitialized |-> initializeDLQLogStream(logStreamInitialized, sink),
   written |-> IF sink.putAnalytics
               THEN << [event |-> "dlq_analytics", analytics |-> analytics] >>
               ELSE << >>,
   threw |-> FALSE]

(* processDLQMessage; storeOk is whether the store accepts the call *)
processDLQMessage(tbl, record, storeOk, sink, logStreamInitialized, t) ==
  IF ~record.parses
  THEN [success |-> FALSE, table |-> tbl, entries |-> << >>, written |-> << >>,
        logStreamInitialized |-> logStreamInitialized]
  ELSE LET dlqMessage == parseDLQRecord(record, t)
           res == updateTaskStatus(tbl, dlqMessage.taskId, DEAD_LETTER,
                                   [retryCount |-> dlqMessage.retryCount,
                                    lastError |-> OrElse(dlqMessage.lastError,
                                                         dlqMessage.failureReason),
                                    failedAt |-> dlqMessage.failedAt], t)
           dlqLogEntry == createDLQLogEntry(dlqMessage, record, t)
           logged == logComprehensiveDLQEntry(logStreamInitialized, dlqLogEntry, sink)
       IN  IF ~storeOk
           THEN [success |-> FALSE, table |-> tbl, entries |-> << >>,
                 written |-> << >>, logStreamInitialized |-> logStreamInitialized]
           ELSE IF ~res.ok
           THEN [success |-> FALSE, table |-> res.table, entries |-> << >>,
                 written |-> << >>, logStreamInitialized |-> logStreamInitialized]
           ELSE IF logged.threw
           THEN [success |-> FALSE, table |-> res.table, entries |-> << >>,
                 written |-> logged.written,
                 logStreamInitialized |-> logged.logStreamInitialized]
           ELSE [success |-> TRUE, table |-> res.table, entries |-> <<dlqLogEntry>>,
                 written |-> logged.written,
                 logStreamInitialized |-> logged.logStreamInitialized]

(* monitorDLQHandler on an event of one record, generateDLQReport included *)
monitorDLQHandler(tbl, record, storeOk, sink, logStreamInitialized, t) ==
  LET result == processDLQMessage(tbl, record, storeOk, sink, logStreamInitialized, t)
      analytics == generateDLQAnalytics(result.entries, DefaultTimeWindowMs, t)
      reported == logDLQAnalytics(result.logStreamInitialized, analytics, sink)
  IN  [batchItemFailures |-> IF result.success THEN {} ELSE {record.messageId},
       success |-> result.success,
       table |-> result.table,
       written |-> IF result.entries # << >>
                   THEN result.written \o reported.written
                   ELSE result.written,
       logStreamInitialized |-> IF result.entries # << >>
                                THEN reported.logStreamInitialized
                                ELSE result.logStreamInitialized]

(***************************************************************************)
(* SpecDLQ: the dead-letter monitor invoked on drawn records, with the     *)
(* store and the sink failing or not.  The table holds task "t-2", stopped *)
(* in its third attempt; task "zz" has no record.                          *)
(***************************************************************************)
DLQPayloads ==
  { (* {"user":"bob"} *)
    << <<<<117, 115, 101, 114>>, [str |-> <<98, 111, 98>>]>> >>,
    (* {"user":"bob","password":"hunter2"} *)
    << <<<<117, 115, 101, 114>>, [str |-> <<98, 111, 98>>]>>,
       <<<<112, 97, 115, 115, 119, 111, 114, 100>>, [str |-> <<104, 117, 110, 116, 101, 114, 50>>]>> >>,
    (* {"config":{"apiKey":"K-123","retries":"3"}} *)
    << <<<<99, 111, 110, 102, 105, 103>>, [obj |-> << <<<<97, 112, 105, 75, 101, 121>>, [str |-> <<75, 45, 49, 50, 51>>]>>, <<<<114, 101, 116, 114, 105, 101, 115>>, [str |-> <<51>>]>> >>]>> >>,
    (* {"items":[{"authToken":"T-9"}]} *)
    << <<<<105, 116, 101, 109, 115>>, [arr |-> << [obj |-> << <<<<97, 117, 116, 104, 84, 111, 107, 101, 110>>, [str |-> <<84, 45, 57>>]>> >>] >>]>> >>,
    (* {"credentials":{"user":"ann"}} *)
    << <<<<99, 114, 101, 100, 101, 110, 116, 105, 97, 108, 115>>, [obj |-> << <<<<117, 115, 101, 114>>, [str |-> <<97, 110, 110>>]>> >>]>> >> }

DLQTaskTable ==
  updateTaskStatus(
    createTask(<< >>, [taskId |-> <<116, 45, 50>>, payload |-> << >>, status |-> PENDING,
                       createdAt |-> 0, retryCount |-> 0, failureDestiny |-> TRUE],
               0).table,
    <<116, 45, 50>>, PROCESSING, [retryCount |-> 2], 0).table

(* the bodies that parse: task "t-2" with every payload, lastError absent or
   "network timeout", and task "zz"; the body's retryCount is the 0 that
   sendTaskMessage wrote *)
DLQBodies ==
  [taskId : {<<116, 45, 50>>}, payload : DLQPayloads, retryCount : {0}, createdAt : {0},
   lastError : {<< >>, <<110, 101, 116, 119, 111, 114, 107, 32, 116, 105, 109, 101, 111, 117, 116>>}]
  \cup
  [taskId : {<<122, 122>>}, payload : {CHOOSE payload \in DLQPayloads : Len(payload) = 2},
   retryCount : {0}, createdAt : {0}, lastError : {<< >>}]

(* parses is whether JSON.parse accepts the body *)
DLQRecords ==
  [messageId : {"m-1"}, receiveCount : {1}, failureReason : {<< >>},
   parses : {TRUE}, body : DLQBodies]
  \cup
  [messageId : {"m-1"}, receiveCount : {1}, failureReason : {<< >>},
   parses : {FALSE}, body : {CHOOSE body \in DLQBodies : TRUE}]

NoInvocation ==
  [applied |-> "none", calls |-> 0, logStreamInitialized |-> FALSE,
   wasInitialized |-> FALSE,
   record |-> CHOOSE record \in DLQRecords : ~record.parses, storeOk |-> TRUE,
   sink |-> AllSinkCallsSucceed, success |-> FALSE, batchItemFailures |-> {},
   written |-> << >>, before |-> << >>]

InitDLQ ==
  /\ tasks = DLQTaskTable
  /\ idem = << >>
  /\ req = [r \in Req |-> IdleRequest]
  /\ queue = [t \in TaskIds |-> NoMessage]
  /\ worker = [t \in TaskIds |-> IdleWorker]
  /\ now = 0
  /\ dups = 0
  /\ probe = NoInvocation

MonitorDLQHandler(record, storeOk, sink) ==
  /\ probe.calls < MaxDLQInvocations
  /\ LET res == monitorDLQHandler(tasks, record, storeOk, sink,
                                  probe.logStreamInitialized, now)
     IN  /\ tasks' = res.table
         /\ probe' = [applied |-> "monitorDLQ", calls |-> probe.calls + 1,
                      logStreamInitialized |-> res.logStreamInitialized,
                      wasInitialized |-> probe.logStreamInitialized,
                      record |-> record, storeOk |-> storeOk, sink |-> sink,
                      success |-> res.success,
                      batchItemFailures |-> res.batchItemFailures,
                      written |-> res.written, before |-> tasks]
  /\ UNCHANGED <<idem, req, queue, worker, now, dups>>

NextDLQ ==
  \E record \in DLQRecords, storeOk \in BOOLEAN, sink \in SinkOutcomes :
    MonitorDLQHandler(record, storeOk, sink)

SpecDLQ == InitDLQ /\ [][NextDLQ]_vars

(***************************************************************************)
(* The batch handlers.  processTaskMessage is the consumer's handling of   *)
(* one record as a function of the table: fails names the store call of    *)
(* the record that the store rejects ("none" when it answers all of them). *)
(* A result is the settled promise of Promise.allSettled: fulfilled with   *)
(* the returned value, or rejected when the function threw.                *)
(***************************************************************************)
Fulfilled(success, messageId, tbl) ==
  [status |-> "fulfilled", success |-> success, messageId |-> messageId, table |-> tbl]

Rejected(tbl) ==
  [status |-> "rejected", success |-> FALSE, messageId |-> "", table |-> tbl]

(* the catch block of processTaskMessage *)
processTaskMessageCatch(tbl, record, errorCls, errorMessage, t) ==
  LET actualRetryCount == record.receiveCount - 1
      res == updateTaskStatus(tbl, record.taskId, FAILED,
                              [lastError |-> errorMessage, failedAt |-> t,
                               retryCount |-> actualRetryCount], t)
  IN  IF isRetryableFailure(errorCls, actualRetryCount)
      THEN Fulfilled(FALSE, record.messageId, tbl)
      ELSE IF record.fails = "failed" \/ ~res.ok
      THEN Rejected(tbl)
      ELSE Fulfilled(FALSE, record.messageId, res.table)

processTaskMessage(tbl, record, t) ==
  LET actualRetryCount == record.receiveCount - 1
      marked == updateTaskStatus(tbl, record.taskId, PROCESSING,
                                 [retryCount |-> actualRetryCount], t)
      completed == updateTaskStatus(marked.table, record.taskId, COMPLETED,
                                    [completedAt |-> t,
                                     retryCount |-> actualRetryCount], t)
      error == simulatedError(record.taskId)
  IN  IF ~record.parses
      THEN Fulfilled(FALSE, record.messageId, tbl)
      ELSE IF record.fails = "processing" \/ ~marked.ok
      THEN processTaskMessageCatch(tbl, record, "Error", "store", t)
      ELSE IF isTaskDestinedToFail(marked.table, record.taskId, TRUE)
      THEN processTaskMessageCatch(marked.table, record, error.cls, error.message, t)
      ELSE IF record.fails = "completed"
      THEN processTaskMessageCatch(marked.table, record, "Error", "store", t)
      ELSE Fulfilled(TRUE, record.messageId, completed.table)

(* results.forEach of both handlers: a fulfilled result that did not       *)
(* succeed is reported under its own messageId, a rejected one under the   *)
(* messageId of the record at its index                                    *)
RECURSIVE batchItemFailures(_, _)
batchItemFailures(results, records) ==
  IF results = << >> THEN << >>
  ELSE LET result == Head(results)
           rest == batchItemFailures(Tail(results), Tail(records))
       IN  IF result.status = "fulfilled"
           THEN IF result.success THEN rest ELSE <<result.messageId>> \o rest
           ELSE <<Head(records).messageId>> \o rest

(* event.Records.map(record => processTaskMessage(record)), settled *)
RECURSIVE processTaskRecords(_, _, _)
processTaskRecords(tbl, records, t) ==
  IF records = << >> THEN [table |-> tbl, results |-> << >>]
  ELSE LET result == processTaskMessage(tbl, Head(records), t)
           rest == processTaskRecords(result.table, Tail(records), t)
       IN  [table |-> rest.table, results |-> <<result>> \o rest.results]

(* a handler that reports the rejected promises only *)
processTaskHandler_rejectedOnly(tbl, records, t) ==
  LET settled == processTaskRecords(tbl, records, t)
  IN  [batchItemFailures |->
         batchItemFailures(
           [i \in DOMAIN records |->
              IF settled.results[i].status = "fulfilled"
              THEN [settled.results[i] EXCEPT !.success = TRUE]
              ELSE settled.results[i]],
           records),
       table |-> settled.table]

processTaskHandler(tbl, records, t) ==
  LET settled == processTaskRecords(tbl, records, t)
  IN  [batchItemFailures |-> batchItemFailures(settled.results, records),
       table |-> settled.table]

(* event.Records.map(record => processDLQMessage(record)), settled; the    *)
(* record's storeOk is whether the store accepts its call                  *)
RECURSIVE processDLQRecords(_, _, _, _, _)
processDLQRecords(tbl, records, sink, logStreamInitialized, t) ==
  IF records = << >> THEN [table |-> tbl, results |-> << >>]
  ELSE LET record == Head(records)
           result == processDLQMessage(tbl, record, record.storeOk, sink,
                                       logStreamInitialized, t)
           rest == processDLQRecords(result.table, Tail(records), sink,
                                     result.logStreamInitialized, t)
       IN  [table |-> rest.table,
            results |-> <<Fulfilled(result.success, record.messageId, result.table)>>
                          \o rest.results]

(* monitorDLQHandler on an event of several records *)
monitorDLQBatch(tbl, records, sink, t) ==
  LET settled == processDLQRecords(tbl, records, sink, FALSE, t)
  IN  [batchItemFailures |-> batchItemFailures(settled.results, records),
       table |-> settled.table]

(***************************************************************************)
(* SpecBatch: each handler invoked once on a drawn batch of records of     *)
(* distinct tasks (records of distinct tasks share no item of the table,   *)
(* so the order in which their promises run does not matter).  The table   *)
(* holds "b-1" (completes), "t-2" (fails, retryable) and "t-4" (fails,     *)
(* non-retryable); "zz" has no record.                                     *)
(***************************************************************************)
MessageIds == <<"m-1", "m-2", "m-3", "m-4">>

RECURSIVE BatchTaskTableOf(_)
BatchTaskTableOf(taskIds) ==
  IF taskIds = {} THEN << >>
  ELSE LET taskId == CHOOSE x \in taskIds : TRUE
       IN  createTask(BatchTaskTableOf(taskIds \ {taskId}),
                      [taskId |-> taskId, payload |-> << >>, status |-> PENDING,
                       createdAt |-> 0, retryCount |-> 0,
                       failureDestiny |-> getFailureRateDecisionForNewTask(taskId, TRUE)],
                      0).table

BatchTaskTable == BatchTaskTableOf(TaskIds \ {<<122, 122>>})

(* a body that does not parse is refused before anything else is read *)
TaskRecords ==
  [messageId : {"m"}, taskId : TaskIds, parses : {TRUE},
   receiveCount : {1, maxReceiveCount},
   fails : {"none", "processing", "completed", "failed"}]
  \cup
  [messageId : {"m"}, taskId : TaskIds, parses : {FALSE},
   receiveCount : {1}, fails : {"none"}]

DLQBatchRecords ==
  { [record EXCEPT !.messageId = "m"] @@ [storeOk |-> storeOk, taskId |-> record.body.taskId] :
      record \in { x \in DLQRecords :
                     \/ ~x.parses
                     \/ x.body.taskId = <<122, 122>>
                     \/ x.body.payload = << <<<<117, 115, 101, 114>>, [str |-> <<98, 111, 98>>]>> >> },
      storeOk \in BOOLEAN }

(* the batches of at most MaxBatch records of the set, of distinct tasks,  *)
(* the record at index i carrying MessageIds[i]                            *)
Batches(recordSet) ==
  UNION { { [i \in 1..n |-> [records[i] EXCEPT !.messageId = MessageIds[i]]] :
              records \in { b \in [1..n -> recordSet] :
                              \A i, j \in 1..n : i # j => b[i].taskId # b[j].taskId } } :
          n \in 1..MaxBatch }

NoBatch ==
  [applied |-> "none", records |-> << >>, sink |-> AllSinkCallsSucceed,
   batchItemFailures |-> << >>, before |-> << >>]

InitBatch ==
  /\ tasks = BatchTaskTable
  /\ idem = << >>
  /\ req = [r \in Req |-> IdleRequest]
  /\ queue = [t \in TaskIds |-> NoMessage]
  /\ worker = [t \in TaskIds |-> IdleWorker]
  /\ now = 0
  /\ dups = 0
  /\ probe = NoBatch

ProcessTaskHandler(records) ==
  /\ probe.applied = "none"
  /\ LET res == processTaskHandler(tasks, records, now)
     IN  /\ tasks' = res.table
         /\ probe' = [NoBatch EXCEPT !.applied = "processTask", !.records = records,
                                     !.batchItemFailures = res.batchItemFailures,
                                     !.before = tasks]
  /\ UNCHANGED <<idem, req, queue, worker, now, dups>>

MonitorDLQBatch(records, sink) ==
  /\ probe.applied = "none"
  /\ LET res == monitorDLQBatch(tasks, records, sink, now)
     IN  /\ tasks' = res.table
         /\ probe' = [NoBatch EXCEPT !.applied = "monitorDLQ", !.records = records,
                                     !.sink = sink,
                                     !.batchItemFailures = res.batchItemFailures,
                                     !.before = tasks]
  /\ UNCHANGED <<idem, req, queue, worker, now, dups>>

NextBatch ==
  \/ \E records \in Batches(TaskRecords) : ProcessTaskHandler(records)
  \/ \E records \in Batches(DLQBatchRecords),
        sink \in {AllSinkCallsSucceed, [AllSinkCallsSucceed EXCEPT !.putEntry = FALSE]} :
       MonitorDLQBatch(records, sink)

SpecBatch == InitBatch /\ [][NextBatch]_vars

(***************************************************************************)
(* Properties                                                              *)
(***************************************************************************)
SameTask(r1, r2) == req[r1].pc # "idle" /\ req[r2].pc # "idle" /\ req[r1].taskId = req[r2].taskId

(* the step in which request r executes createTask *)
CreateStep(r) == req[r].pc = "create" /\ req'[r].pc # "create"

(* the step in which request r executes the idempotency check *)
BeforeStep(r) == req[r].pc = "before" /\ req'[r].pc # "before"

(* the step in which request r executes the idempotency store *)
AfterStep(r) == req[r].pc = "after" /\ req'[r].pc # "after"

(* C1: among the createTask calls that share a taskId, in any interleaving, *)
(* exactly one succeeds, and it writes and returns a record with status    *)
(* PENDING and retryCount 0; every other call fails with "already exists"  *)
(* and leaves the task table as it was.                                    *)
C1_OneCreatePerTask ==
  \A t \in TaskIds :
    LET callers == {r \in Req : req[r].taskId = t /\ req[r].create # "none"}
    IN  callers # {} =>
          /\ Cardinality({r \in callers : req[r].create = "created"}) = 1
          /\ \A r \in callers : req[r].create \in {"created", "exists"}

C1_CreateStep ==
  \A r \in Req :
    CreateStep(r) =>
      LET t == req[r].taskId
      IN  IF t \in DOMAIN tasks
          THEN req'[r].create = "exists" /\ tasks' = tasks
          ELSE /\ req'[r].create = "created"
               /\ tasks'[t].status = PENDING
               /\ tasks'[t].retryCount = 0
               /\ \A u \in DOMAIN tasks : tasks'[u] = tasks[u]

C1_LifecycleExclusivity == []C1_OneCreatePerTask /\ [][C1_CreateStep]_vars

C1_Witness ==
  \E r1, r2 \in Req :
    /\ r1 # r2 /\ SameTask(r1, r2)
    /\ req[r1].create = "created"
    /\ req[r2].create = "exists"
    /\ req[r2].check = "Proceed"

(* C2: a submission whose key has a stored, unexpired record with the same *)
(* fingerprint is answered with the stored response (same status code and  *)
(* body), and neither creates a task nor enqueues a message.               *)
C2_ReplayStep ==
  \A r \in Req :
    LET k == req[r].taskId
    IN  ( /\ BeforeStep(r)
          /\ k \in DOMAIN idem
          /\ ~(now > idem[k].expiration)
          /\ idem[k].requestHash = defaultRequestHasher(req[r].body) )
        => /\ req'[r].pc = "done"
           /\ req'[r].response.statusCode = idem[k].response.statusCode
           /\ ResponseBody(req'[r].response) = ResponseBody(idem[k].response)
           /\ tasks' = tasks
           /\ queue' = queue

C2_ReplayedNeverProcessed ==
  \A r \in Req :
    req[r].check = "CachedResponse" =>
      req[r].pc = "done" /\ req[r].create = "none" /\ req[r].send = "none"

C3_CheckStep ==
  \A r \in Req :
    BeforeStep(r) =>
      LET k == req[r].taskId
          present == k \in DOMAIN idem
          expired == present /\ now > idem[k].expiration
          same == present /\ idem[k].requestHash = defaultRequestHasher(req[r].body)
          outcome == req'[r].check
      IN  /\ outcome \in {"Proceed", "Conflict", "CachedResponse"}
          /\ (outcome = "Proceed") <=> (~present \/ expired)
          /\ (outcome = "Conflict") <=> (present /\ ~expired /\ ~same)
          /\ (outcome = "CachedResponse") <=> (present /\ ~expired /\ same)

C4_StoreStep ==
  \A r \in Req :
    (AfterStep(r) /\ req[r].taskId \in DOMAIN idem) =>
      /\ idem' = idem
      /\ req'[r].pc = "done"
      /\ req'[r].store \in {"lost", "skipped"}
      /\ req'[r].response = req[r].response
      /\ req'[r].response # NoResponse

C4_OneRecordPerKey ==
  \A r1, r2 \in Req :
    (r1 # r2 /\ SameTask(r1, r2) /\ req[r1].store = "stored" /\ req[r2].store = "stored")
      => \/ req[r1].response.timestamp + ExpirationTicks < req[r2].response.timestamp
         \/ req[r2].response.timestamp + ExpirationTicks < req[r1].response.timestamp

C4_AtMostOneWinner == []C4_OneRecordPerKey /\ [][C4_StoreStep]_vars

C4_Witness ==
  \E r1, r2 \in Req :
    /\ r1 # r2 /\ SameTask(r1, r2)
    /\ req[r1].store = "stored"
    /\ req[r2].store = "lost"
    /\ req[r2].pc = "done"
    /\ req[r2].response.statusCode \in {201, 400}
    /\ idem[req[r1].taskId].response.statusCode = req[r1].response.statusCode

(* C5: a failed attempt whose error is not marked non-retryable is granted *)
(* a retry when attemptIndex < maxRetries and is terminal when             *)
(* attemptIndex >= maxRetries.                                             *)
C5_RetryExhaustion ==
  \A t \in TaskIds :
    (worker[t].outcome \in {"Retry", "Terminal"} /\ worker[t].errorCls # "NonRetryableError")
      => ((worker[t].outcome = "Retry") <=> (worker[t].actualRetryCount < maxRetries))

(* the keyword rule by which shouldRetry takes an error for non-retryable *)
MessageMarkedNonRetryable(error) ==
  /\ error # NoError
  /\ \E kw \in {Kw_validation, Kw_invalid, Kw_unauthorized, Kw_forbidden} :
       Includes(error.message, kw)

C7_RetryCountNeverDecreases ==
  [][\A t \in DOMAIN tasks : tasks'[t].retryCount >= tasks[t].retryCount]_vars

(* C8: once a task is COMPLETED or DEAD_LETTER its status never changes. *)
C8_TerminalStatusFinal ==
  [][\A t \in DOMAIN tasks :
       tasks[t].status \in {COMPLETED, DEAD_LETTER} => tasks'[t].status = tasks[t].status]_vars

LifecycleEdges ==
  { <<PENDING, PROCESSING>>, <<PROCESSING, COMPLETED>>, <<PROCESSING, FAILED>>,
    <<FAILED, DEAD_LETTER>>, <<PROCESSING, PENDING>> }

(* C9: every change of a task's status follows an edge of the lifecycle    *)
(* graph.                                                                  *)
C9_OnlyLifecycleEdges ==
  [][\A t \in DOMAIN tasks :
       tasks'[t].status # tasks[t].status
         => <<tasks[t].status, tasks'[t].status>> \in LifecycleEdges]_vars

(* C10: with fair delivery, every task whose message was enqueued          *)
(* eventually has status COMPLETED, FAILED or DEAD_LETTER.                 *)
C10_EventuallySettled ==
  \A t \in TaskIds :
    (queue[t].loc # "none")
      ~> (t \in DOMAIN tasks /\ tasks[t].status \in {COMPLETED, FAILED, DEAD_LETTER})

(* a task went through three failed deliveries and the dead-letter queue *)
C10_Witness ==
  \E t \in DOMAIN tasks :
    /\ queue[t].loc = "dlqDone"
    /\ queue[t].receiveCount = maxReceiveCount
    /\ tasks[t].status = DEAD_LETTER


(* C11: every computed delay lies between 0 and maxDelayMs, with jitter
   enabled or disabled and with the visibility-timeout mode on or off. *)
C11_DelayWithinCap ==
  probe.applied \in {"ExponentialBackoffStrategy", "calculateDelay",
                     "calculateBackoffDelay"}
    => /\ 0 <= probe.delay
       /\ probe.delay <= probe.config.maxDelayMs * TenthsPerMs

C11_Witness ==
  /\ probe.applied = "calculateDelay"
  /\ probe.config.jitterEnabled
  /\ probe.config.useVisibilityTimeout
  /\ probe.jitter > 0
  /\ probe.config.baseDelayMs * Pow(probe.config.backoffMultiplier, probe.attempt)
       > probe.config.maxDelayMs
  /\ probe.delay = probe.config.maxDelayMs * TenthsPerMs

(* C12: with jitter disabled the delay never decreases as the attempt grows,
   and stays at or below maxDelayMs: the delay of every earlier attempt is at
   most the delay computed for this attempt. *)
C12_DelayMonotone ==
  (probe.applied \in {"ExponentialBackoffStrategy", "calculateDelay",
                      "calculateBackoffDelay"}
   /\ ~probe.config.jitterEnabled)
    => /\ \A a \in 0..probe.attempt :
            /\ ExponentialBackoffStrategy(a, probe.config)
                 <= ExponentialBackoffStrategy(probe.attempt, probe.config)
            /\ calculateDelay(strategies0, probe.config, a, 0).delay
                 <= calculateDelay(strategies0, probe.config, probe.attempt, 0).delay
            /\ calculateBackoffDelay(a, probe.config, 0)
                 <= calculateBackoffDelay(probe.attempt, probe.config, 0)
       /\ probe.delay <= probe.config.maxDelayMs * TenthsPerMs

C12_Witness ==
  /\ probe.applied = "ExponentialBackoffStrategy"
  /\ ~probe.config.jitterEnabled
  /\ probe.attempt >= 2
  /\ ExponentialBackoffStrategy(0, probe.config)
       < ExponentialBackoffStrategy(1, probe.config)
  /\ ExponentialBackoffStrategy(probe.attempt - 1, probe.config) = probe.delay
  /\ probe.delay = probe.config.maxDelayMs * TenthsPerMs

(* C13: with jitter disabled and the visibility-timeout mode off the delay is
   min(baseDelayMs * backoffMultiplier^attempt, maxDelayMs); for base 1000,
   multiplier 2 and max 30000 it is 1000, 2000, 4000 at attempts 0, 1, 2 and
   30000 at attempt 10. *)
C13_ExponentialFormula ==
  (probe.applied \in {"ExponentialBackoffStrategy", "calculateDelay"}
   /\ ~probe.config.jitterEnabled
   /\ ~probe.config.useVisibilityTimeout)
    => /\ probe.delay =
            TenthsPerMs * Min(probe.config.baseDelayMs
                                * Pow(probe.config.backoffMultiplier, probe.attempt),
                              probe.config.maxDelayMs)
       /\ (probe.config.baseDelayMs = 1000 /\ probe.config.backoffMultiplier = 2
           /\ probe.config.maxDelayMs = 30000)
            => /\ probe.attempt = 0 => probe.delay = 1000 * TenthsPerMs
               /\ probe.attempt = 1 => probe.delay = 2000 * TenthsPerMs
               /\ probe.attempt = 2 => probe.delay = 4000 * TenthsPerMs
               /\ probe.attempt = 10 => probe.delay = 30000 * TenthsPerMs

C13_Witness ==
  /\ probe.applied = "calculateDelay"
  /\ ~probe.config.jitterEnabled
  /\ ~probe.config.useVisibilityTimeout
  /\ probe.config.baseDelayMs = 1000
  /\ probe.config.backoffMultiplier = 2
  /\ probe.config.maxDelayMs = 30000
  /\ probe.attempt = 10
  /\ probe.delay = 30000 * TenthsPerMs

(* the registrations made under a name, in order, the one made at start-up
   first *)
RegisteredUnder(name) ==
  SelectSeq(strategies0 \o probe.history, LAMBDA e : e.name = name)

(* C14: a retry strategy computes its delay with the implementation
   registered under the strategy name of its configuration, and fails with an
   unknown-strategy error when that name is not registered. *)
C14_ConfiguredStrategyUsed ==
  probe.applied = "calculateDelay"
    => IF RegisteredUnder(probe.config.strategy) = << >>
       THEN ~probe.result.ok /\ probe.result.error = "Unknown retry strategy"
       ELSE LET regs == RegisteredUnder(probe.config.strategy)
            IN  /\ probe.result.ok
                /\ probe.result.impl = regs[Len(regs)].impl
                /\ probe.result.delay =
                     IBackoffStrategy_calculateDelay(regs[Len(regs)].impl,
                                                     probe.attempt, probe.config)

(* C15: getStrategy returns the implementation most recently registered under
   the name and throws for a name never registered; isStrategySupported is
   true exactly for the names getAvailableStrategies returns; before any
   registration the only registered name is exponential. *)
C15_RegistryLookup ==
  /\ probe.applied = "getStrategy"
       => LET regs == RegisteredUnder(probe.result.name)
          IN  IF regs = << >>
              THEN ~probe.result.ok /\ probe.result.error = "Unknown retry strategy"
              ELSE probe.result.ok /\ probe.result.impl = regs[Len(regs)].impl
  /\ probe.applied = "isStrategySupported"
       => (probe.result.supported
             <=> \E i \in 1..Len(getAvailableStrategies(probe.strategies)) :
                   getAvailableStrategies(probe.strategies)[i] = probe.result.name)
  /\ (probe.applied = "getAvailableStrategies" /\ probe.history = << >>)
       => probe.result.available = <<EXPONENTIAL>>

C15_Witness ==
  /\ probe.applied = "getStrategy"
  /\ Len(RegisteredUnder(probe.result.name)) = 2
  /\ RegisteredUnder(probe.result.name)[1].impl # RegisteredUnder(probe.result.name)[2].impl
  /\ probe.result.impl = RegisteredUnder(probe.result.name)[2].impl
  /\ \E n \in StrategyNames : ~isStrategySupported(probe.strategies, n)

ExecuteSettled == probe.pc \in {"returned", "thrown"}

(* every invocation so far rejected with an error shouldRetry accepts *)
AllFailedRetryable ==
  \A i \in 1..Len(probe.log) :
    /\ ~probe.log[i].ok
    /\ ~MessageMarkedNonRetryable([cls |-> "Error", message |-> probe.log[i].message])

C16_BoundedInvocations ==
  /\ Len(probe.log) <= probe.maxRetries + 1
  /\ \A i \in 1..Len(probe.log) : probe.log[i].ok => i = Len(probe.log)
  /\ (Len(probe.log) > 0 /\ probe.log[Len(probe.log)].ok) => probe.pc = "returned"
  /\ probe.pc = "returned" => probe.log[Len(probe.log)].ok
  /\ (probe.pc = "thrown" /\ AllFailedRetryable)
       => /\ Len(probe.log) = probe.maxRetries + 1
          /\ probe.thrown = probe.log[Len(probe.log)]

(* C16: executeWithRetry always terminates and invokes the operation at most
   maxRetries + 1 times; the first success is returned with no further
   invocation; when every attempt fails with a retryable error the operation
   is invoked exactly maxRetries + 1 times and the last error is rethrown. *)
C16_ExecuteWithRetry == []C16_BoundedInvocations /\ <>[]ExecuteSettled

C16_Witness ==
  /\ probe.pc = "thrown"
  /\ AllFailedRetryable
  /\ probe.maxRetries = 3
  /\ Len(probe.log) = 4
  /\ probe.thrown.invocation = 4

(* C17: the idempotency record under a key holds the response of the
   submission that created the task; the response of a failed or duplicate
   submission is never stored. *)
C17_StoredResponseIsOriginal ==
  \A k \in DOMAIN idem :
    /\ idem[k].response.statusCode = 201
    /\ idem[k].response.kind = "queued"

(* C18: every attempt uses the failureDestiny stored at creation, also when a
   read of the store fails: a task created with failureDestiny true is never
   COMPLETED and a task created with failureDestiny false never fails by
   fault injection. *)
C18_DestinyFixedAtCreation ==
  \A t \in DOMAIN tasks :
    /\ tasks[t].failureDestiny => tasks[t].status # COMPLETED
    /\ ~tasks[t].failureDestiny
         => worker[t].errorCls \notin {"RetryableError", "NonRetryableError"}

(* C19: a transition requested for a taskId that has no record fails with
   not-found and leaves the store unchanged: no record is created. *)
C19_TransitionOfMissingTask ==
  (probe.applied = "updateTaskStatus" /\ probe.taskId \notin DOMAIN probe.before)
    => /\ ~probe.ok
       /\ probe.error = "not found"
       /\ tasks = probe.before
       /\ probe.taskId \notin DOMAIN tasks

C19_Witness ==
  /\ probe.applied = "updateTaskStatus"
  /\ probe.taskId \notin DOMAIN probe.before
  /\ DOMAIN probe.before # {}
  /\ "completedAt" \in DOMAIN probe.updates
  /\ ~probe.ok

(* the attributes a status requires *)
RequiredFields(status) ==
  IF status = COMPLETED THEN {"completedAt"}
  ELSE IF status \in {FAILED, DEAD_LETTER} THEN {"lastError", "failedAt"}
  ELSE {}

(* C20: a transition to COMPLETED without completedAt, or to FAILED or
   DEAD_LETTER without both lastError and failedAt, does not succeed and
   leaves the record unchanged; a missing required field is never filled in. *)
C20_RequiredFieldsEnforced ==
  (probe.applied = "updateTaskStatus"
   /\ ~(RequiredFields(probe.status) \subseteq DOMAIN probe.updates))
    => /\ ~probe.ok
       /\ tasks = probe.before

(* the whole seconds a delay held in tenths of a millisecond takes: the least
   s with s seconds >= delay *)
WholeSeconds(delay) ==
  CHOOSE s \in 0..(delay \div (MsPerSecond * TenthsPerMs) + 1) :
    /\ s * MsPerSecond * TenthsPerMs >= delay
    /\ (s - 1) * MsPerSecond * TenthsPerMs < delay

(* C21: the visibility timeout computed for a retry count is
   clamp(ceil(delayMs / 1000), 1, 43200), delayMs being the backoff delay of
   that retry count; it is a whole number of seconds in [1, 43200]. *)
C21_VisibilityTimeoutClamped ==
  (probe.applied \in {"calculateVisibilityTimeout", "retryWithVisibilityTimeout"}
   /\ probe.computed)
    => /\ probe.delayMs = calculateDelay(strategies0, VisibilityRetryConfig,
                                         probe.retryCount, probe.jitter).delay
       /\ probe.timeout \in 1..maxVisibilityTimeout
       /\ LET seconds == WholeSeconds(probe.delayMs)
          IN  probe.timeout = IF seconds < 1 THEN 1
                              ELSE IF seconds > maxVisibilityTimeout
                              THEN maxVisibilityTimeout
                              ELSE seconds

C21_Witness ==
  /\ probe.applied = "calculateVisibilityTimeout"
  /\ probe.computed
  /\ probe.retryCount = 0
  /\ probe.delayMs % (MsPerSecond * TenthsPerMs) # 0
  /\ probe.timeout = 2

(* C22: when the query for the queue's attributes fails, the visibility
   timeout is still computed and a retry with retryCount < maxRetries is
   still granted. *)
C22_QueryFailureStillRetries ==
  (probe.applied = "retryWithVisibilityTimeout"
   /\ probe.queried /\ ~probe.queryOk
   /\ probe.retryCount < probe.maxRetries
   /\ probe.changeOk)
    => /\ probe.computed
       /\ probe.timeout \in 1..maxVisibilityTimeout
       /\ probe.ok

(* the rule table of the classifier: the keywords of each rule, in order *)
RuleTable ==
  << [category |-> "VALIDATION", keywords |-> {Kw_validation, Kw_invalid, Kw_malformed}],
     [category |-> "NETWORK", keywords |-> {Kw_network, Kw_connection, Kw_timeout}],
     [category |-> "RATE_LIMIT", keywords |-> {Kw_throttl, Kw_rate, Kw_limit}],
     [category |-> "SYSTEM", keywords |-> {Kw_system, Kw_internal, Kw_server}] >>

(* keyword presence whatever the letter case: some occurrence position holds
   the keyword's letters, upper or lower *)
Present(message, keyword) ==
  \E i \in 0..(Len(message) - Len(keyword)) :
    \A j \in 1..Len(keyword) :
      message[i + j] = keyword[j] \/ message[i + j] = keyword[j] - 32

Matching(message) ==
  {i \in 1..Len(RuleTable) : \E k \in RuleTable[i].keywords : Present(message, k)}

(* C23: the classification is the first rule of the table, top to bottom,
   one of whose keywords is in the message whatever its letter case:
   VALIDATION (MEDIUM, not retryable), NETWORK (HIGH if attempts > 2 else
   MEDIUM, retryable), RATE_LIMIT (MEDIUM, retryable), SYSTEM (HIGH,
   retryable), otherwise UNKNOWN (HIGH if attempts > 1 else MEDIUM, retryable
   exactly when attempts < 3); it is a function of message and attempts. *)
C23_RuleTableFirstMatch ==
  probe.applied = "classifyError"
    => LET matching == Matching(probe.message)
           first == IF matching = {} THEN "UNKNOWN"
                    ELSE RuleTable[CHOOSE i \in matching :
                                     \A j \in matching : i <= j].category
           c == probe.classification
           n == probe.retryCount
       IN  /\ c.category = first
           /\ first = "VALIDATION" => c.severity = "MEDIUM" /\ ~c.isRetryable
           /\ first = "NETWORK"
                => /\ c.severity = (IF n > 2 THEN "HIGH" ELSE "MEDIUM")
                   /\ c.isRetryable
           /\ first = "RATE_LIMIT" => c.severity = "MEDIUM" /\ c.isRetryable
           /\ first = "SYSTEM" => c.severity = "HIGH" /\ c.isRetryable
           /\ first = "UNKNOWN"
                => /\ c.severity = (IF n > 1 THEN "HIGH" ELSE "MEDIUM")
                   /\ c.isRetryable = (n < 3)
           /\ c = classifyError(probe.message, probe.retryCount)

(* "internal timeout" at the third attempt: NETWORK before SYSTEM *)
C23_Witness ==
  /\ probe.applied = "classifyError"
  /\ probe.message = Kw_internal \o <<32>> \o Kw_timeout
  /\ probe.retryCount = 3
  /\ probe.classification.category = "NETWORK"
  /\ probe.classification.severity = "HIGH"

(* "Connection timeout": keywords in another letter case *)
C23_WitnessCase ==
  /\ probe.applied = "classifyError"
  /\ probe.message = <<67, 111, 110, 110, 101, 99, 116, 105, 111, 110>> \o <<32>> \o Kw_timeout
  /\ probe.retryCount = 1
  /\ probe.classification.category = "NETWORK"
  /\ probe.classification.severity = "MEDIUM"

(* the entries of the batch whose timestamp lies in the window of the last
   aggregation, from its start to the moment of the call *)
InWindow ==
  {i \in 1..Len(probe.entries) :
     /\ probe.entries[i].timestamp >= probe.last.clock - probe.last.window
     /\ probe.entries[i].timestamp <= probe.last.clock}

RECURSIVE SumValues(_)
SumValues(f) ==
  IF DOMAIN f = {} THEN 0
  ELSE LET k == CHOOSE x \in DOMAIN f : TRUE
       IN  f[k] + SumValues([x \in DOMAIN f \ {k} |-> f[x]])

(* breakdown counts, per key, the in-window entries with that key, and has no
   other key *)
CountsInWindow(breakdown, keys) ==
  /\ DOMAIN breakdown = {keys[i] : i \in InWindow}
  /\ \A k \in DOMAIN breakdown :
       breakdown[k] = Cardinality({i \in InWindow : keys[i] = k})

(* C24: the aggregation counts exactly the entries whose timestamp lies
   inside the window: totalMessages is their number, each is counted once in
   byCategory, bySeverity and byRetryCount, which each sum to totalMessages,
   and entries outside the window contribute to no field. *)
C24_CountsExactlyInWindow ==
  probe.applied = "generateDLQAnalytics"
    => LET report == probe.last.report
           entries == probe.entries
           categories == [i \in 1..Len(entries) |->
                            entries[i].errorClassification.category]
           severities == [i \in 1..Len(entries) |->
                            entries[i].errorClassification.severity]
           retryCounts == [i \in 1..Len(entries) |->
                             numberToString(entries[i].retryCount)]
           errors == [i \in 1..Len(entries) |-> entries[i].lastError]
       IN  /\ report.summary.totalMessages = Cardinality(InWindow)
           /\ CountsInWindow(report.errorBreakdown.byCategory, categories)
           /\ CountsInWindow(report.errorBreakdown.bySeverity, severities)
           /\ CountsInWindow(report.errorBreakdown.byRetryCount, retryCounts)
           /\ SumValues(report.errorBreakdown.byCategory) = report.summary.totalMessages
           /\ SumValues(report.errorBreakdown.bySeverity) = report.summary.totalMessages
           /\ SumValues(report.errorBreakdown.byRetryCount)
                = report.summary.totalMessages
           /\ report.summary.uniqueTasks
                = Cardinality({entries[i].taskId : i \in InWindow})
           /\ \A r \in 0..MaxProbeCount :
                (report.summary.maxRetryCount >= r)
                  <=> (r = 0 \/ \E i \in InWindow : entries[i].retryCount >= r)
           /\ report.summary.totalPayloadSize
                = SumValues([i \in InWindow |-> entries[i].payload.size])
           /\ Cardinality(InWindow) > 0
                => /\ report.summary.averagePayloadSize[1] * Cardinality(InWindow)
                       = report.summary.averagePayloadSize[2]
                           * report.summary.totalPayloadSize
                   /\ report.summary.averageRetryCount[1] * Cardinality(InWindow)
                       = report.summary.averageRetryCount[2]
                           * SumValues([i \in InWindow |-> entries[i].retryCount])
           /\ \A e \in 1..Len(report.errorBreakdown.topErrors) :
                LET item == report.errorBreakdown.topErrors[e]
                IN  item.count = Cardinality({i \in InWindow : errors[i] = item.error})
           /\ {report.errorBreakdown.topErrors[e].error :
                 e \in 1..Len(report.errorBreakdown.topErrors)}
                = {errors[i] : i \in InWindow}

(* two NETWORK entries and one VALIDATION entry inside the window, and an
   aggregation that leaves an older entry out *)
C24_Witness ==
  /\ probe.applied = "generateDLQAnalytics"
  /\ Len(probe.entries) = 3
  /\ Cardinality(InWindow) = 2
  /\ probe.last.report.summary.totalMessages = 2
  /\ probe.last.report.errorBreakdown.byCategory = ("NETWORK" :> 1) @@ ("VALIDATION" :> 1)

C24_WitnessExample ==
  /\ probe.applied = "generateDLQAnalytics"
  /\ probe.last.report.summary.totalMessages = 3
  /\ probe.last.report.errorBreakdown.byCategory = ("NETWORK" :> 2) @@ ("VALIDATION" :> 1)

(* C25: aggregating the same batch over the same window again, at any later
   time, yields the same report, and the batch is not modified. *)
C25_SameBatchSameReport ==
  (probe.applied = "generateDLQAnalytics" /\ probe.calls >= 2
   /\ probe.previous.window = probe.last.window)
    => probe.previous.report = probe.last.report

(* C26: a task whose attempt fails with a non-retryable error is not
   retried: it is processed exactly once, and its message goes from that
   attempt directly to the dead-letter queue. *)
C26_PermanentFailureNotRetried ==
  [][\A t \in TaskIds :
       (worker[t].pc = "idle" /\ worker[t].outcome = "Terminal"
        /\ worker[t].errorCls = "NonRetryableError")
         => /\ worker'[t] = worker[t]
            /\ queue'[t].receiveCount = queue[t].receiveCount]_vars

(* C27: a task that fails every attempt and exhausts its retries ends with
   status FAILED or DEAD_LETTER and a recorded retryCount of maxRetries. *)
C27_ExhaustedTaskRecord ==
  \A t \in TaskIds :
    (queue[t].loc = "dlqDone" /\ t \in DOMAIN tasks
     /\ simulatedError(t).cls # "NonRetryableError")
      => /\ tasks[t].status \in {FAILED, DEAD_LETTER}
         /\ tasks[t].retryCount = maxRetries

(* C28: a failed read or write of the store is surfaced to the caller: an
   attempt whose read of the task record failed ends as a failure with the
   store's error, neither completing the task nor failing it by an injected
   error, and a creation whose scan failed creates no record. *)
C28_StoreFailureSurfaced ==
  /\ \A t \in TaskIds :
       worker[t].read = "failed"
         => /\ worker[t].outcome \in {"Retry", "Terminal"}
            /\ worker[t].errorCls = "Error"
  /\ \A r \in Req : req[r].scan = "failed" => req[r].create # "created"

(* C29: a failure of the log sink does not reach the control flow: for every
   DLQ record, the batch outcome reported for it and the resulting task table
   are what they are when every sink call succeeds. *)
C29_SinkFailureContained ==
  probe.applied = "monitorDLQ"
    => LET reference == monitorDLQHandler(probe.before, probe.record, probe.storeOk,
                                          AllSinkCallsSucceed, probe.wasInitialized,
                                          now)
       IN  /\ probe.batchItemFailures = reference.batchItemFailures
           /\ probe.success = reference.success
           /\ tasks = reference.table

C29_Witness ==
  /\ probe.applied = "monitorDLQ"
  /\ ~probe.sink.putEntry
  /\ ~probe.sink.createLogStream
  /\ ~probe.sink.putAnalytics
  /\ probe.written = << >>
  /\ probe.success
  /\ probe.batchItemFailures = {}
  /\ \E t \in DOMAIN tasks :
       tasks[t].status = DEAD_LETTER /\ probe.before[t].status = PROCESSING

(* the strings held anywhere in a value *)
RECURSIVE ScalarsOfValue(_)
ScalarsOfValue(value) ==
  IF "str" \in DOMAIN value THEN {value.str}
  ELSE UNION {ScalarsOfValue(ObjectEntries(value)[i][2]) :
                i \in 1..Len(ObjectEntries(value))}

(* the strings stored under a sensitive key, at any depth *)
RECURSIVE SensitiveValues(_)
SensitiveValues(value) ==
  IF "str" \in DOMAIN value THEN {}
  ELSE UNION {IF isSensitiveKey(ObjectEntries(value)[i][1])
              THEN ScalarsOfValue(ObjectEntries(value)[i][2])
              ELSE SensitiveValues(ObjectEntries(value)[i][2]) :
                i \in 1..Len(ObjectEntries(value))}

(* C30: no value stored under a sensitive payload key, at any nesting depth,
   appears in a DLQ entry written to the log sink. *)
C30_NoSensitiveValueLogged ==
  \A e \in 1..Len(probe.written) :
    probe.written[e].event = "dlq_entry"
      => LET payload == probe.written[e].entry.payload
         IN  (ScalarsOfValue([obj |-> payload.data])
              \cup ScalarsOfValue([obj |-> payload.sanitized]))
               \cap SensitiveValues([obj |-> probe.record.body.payload]) = {}

(* the attempt of task t ended with a failure for which the retry rule     *)
(* refuses a retry: a NonRetryableError, or attemptIndex >= maxRetries     *)
RetryRefused(t) ==
  /\ worker[t].pc = "idle"
  /\ worker[t].outcome \in {"Retry", "Terminal"}
  /\ queue[t].loc \in {"visible", "dlq"}
  /\ \/ worker[t].errorCls = "NonRetryableError"
     \/ worker[t].actualRetryCount >= maxRetries

(* C31: every task for which retry is refused (non-retryable error or      *)
(* retries exhausted) is marked FAILED, is afterwards eventually marked    *)
(* DEAD_LETTER, and the dead-letter monitor has then handled its message   *)
(* (the handling that builds the DLQ entry).                               *)
C31_RefusedFailedThenDeadLetter ==
  \A t \in TaskIds :
    /\ [](RetryRefused(t) => (t \in DOMAIN tasks /\ tasks[t].status = FAILED))
    /\ RetryRefused(t)
         ~> (t \in DOMAIN tasks /\ tasks[t].status = DEAD_LETTER
               /\ queue[t].loc = "dlqDone")


(* C32: in every reachable state, a task whose last processing attempt     *)
(* failed has lastError set on its record, also while it waits for a       *)
(* granted retry.                                                          *)
C32_FailedAttemptHasLastError ==
  \A t \in TaskIds :
    (worker[t].pc = "idle" /\ worker[t].outcome \in {"Retry", "Terminal"})
      => (t \in DOMAIN tasks /\ "lastError" \in DOMAIN tasks[t])


(* the step writes a new value of the attribute on the record of task t *)
Writes(t, attribute) ==
  /\ attribute \in DOMAIN tasks'[t]
  /\ IF attribute \in DOMAIN tasks[t]
     THEN tasks'[t][attribute] # tasks[t][attribute]
     ELSE TRUE

(* the step takes task t into the status, and the attribute was not set *)
FirstEntry(t, status, attribute) ==
  /\ tasks'[t].status = status
  /\ tasks[t].status # status
  /\ attribute \notin DOMAIN tasks[t]

(* C33: completedAt is written only by the transition that enters          *)
(* COMPLETED and failedAt only by the one that enters FAILED, each once:   *)
(* no later transition of the task writes them again.                      *)
C33_TerminalTimestampsWrittenOnce ==
  [][\A t \in DOMAIN tasks :
       /\ Writes(t, "completedAt") => FirstEntry(t, COMPLETED, "completedAt")
       /\ Writes(t, "failedAt") => FirstEntry(t, FAILED, "failedAt")]_vars


(* the attributes updateTaskStatus may write *)
SuppliedOrStamped(updates) == DOMAIN updates \cup {"status", "updatedAt"}

(* C34: a transition changes only status, updatedAt and those of           *)
(* retryCount, lastError, completedAt and failedAt that the caller         *)
(* supplied; every other attribute of the record (taskId, payload,         *)
(* createdAt, failureDestiny among them) and every other record stay as    *)
(* they were.                                                              *)
C34_TransitionFrame ==
  (probe.applied = "updateTaskStatus" /\ probe.ok)
    => /\ DOMAIN tasks = DOMAIN probe.before
       /\ \A t \in DOMAIN tasks \ {probe.taskId} : tasks[t] = probe.before[t]
       /\ LET old == probe.before[probe.taskId]
              new == tasks[probe.taskId]
          IN  /\ DOMAIN new = DOMAIN old \cup SuppliedOrStamped(probe.updates)
              /\ new.status = probe.status
              /\ \A a \in DOMAIN probe.updates : new[a] = probe.updates[a]
              /\ \A a \in DOMAIN old \ SuppliedOrStamped(probe.updates) :
                   new[a] = old[a]
              /\ {"taskId", "payload", "createdAt", "failureDestiny"}
                   \subseteq DOMAIN old \ SuppliedOrStamped(probe.updates)

(* a FAILED transition that supplies lastError only: retryCount keeps the  *)
(* value of the creation and failedAt stays unset                          *)
C34_Witness ==
  /\ probe.applied = "updateTaskStatus"
  /\ probe.ok
  /\ probe.status = FAILED
  /\ DOMAIN probe.updates = {"lastError"}
  /\ tasks[probe.taskId].lastError = "boom"
  /\ tasks[probe.taskId].retryCount = 0
  /\ "failedAt" \notin DOMAIN tasks[probe.taskId]
  /\ tasks[probe.taskId].payload = probe.before[probe.taskId].payload


(* C35: whenever executeWithRetry grants a retry at attemptIndex i, the    *)
(* delay it waits is calculateDelay(i + 1, config), as it is in the queue  *)
(* consumer and in the visibility-timeout path.                            *)
C35_RetryDelayOfNextAttempt ==
  probe.pc = "delay"
    => probe.delayMs
         = calculateDelay(strategies0, ExecuteConfig, probe.attempt + 1, 0).delay


(* C36: retryWithVisibilityTimeout returns false without any transport     *)
(* call when retryCount >= maxRetries; otherwise it issues the visibility  *)
(* change for the message and returns true exactly when that change        *)
(* succeeded.                                                              *)
C36_RetryWithVisibilityContract ==
  probe.applied = "retryWithVisibilityTimeout"
    => IF probe.retryCount >= probe.maxRetries
       THEN ~probe.ok /\ ~probe.queried /\ ~probe.sent
       ELSE probe.sent /\ (probe.ok <=> probe.changeOk)


(* the result of handling the record at index i of the batch on its own,   *)
(* against the table as it was before the invocation                       *)
HandledAlone(i) ==
  IF probe.applied = "processTask"
  THEN processTaskMessage(probe.before, probe.records[i], now)
  ELSE LET record == probe.records[i]
           result == processDLQMessage(probe.before, record, record.storeOk,
                                       probe.sink, FALSE, now)
       IN  Fulfilled(result.success, record.messageId, result.table)

SucceededAlone(i) ==
  HandledAlone(i).status = "fulfilled" /\ HandledAlone(i).success

(* the message ids of the records that do not succeed on their own, in the *)
(* order of the batch                                                      *)
ExpectedItemFailures ==
  LET NotSucceeded(messageId) ==
        \E i \in DOMAIN probe.records :
          probe.records[i].messageId = messageId /\ ~SucceededAlone(i)
  IN  SelectSeq([i \in DOMAIN probe.records |-> probe.records[i].messageId],
                NotSucceeded)

(* C37: the batch response of processTask and of monitorDLQ lists exactly  *)
(* the message ids of the records whose processing did not succeed; a      *)
(* record not listed was fully processed (its task is COMPLETED, or        *)
(* DEAD_LETTER for the monitor); and every record has the outcome and the  *)
(* effect on its task that it has when handled alone, whatever happened to *)
(* the other records of the batch, a thrown error included.                *)
C37_BatchReportsExactlyFailures ==
  probe.applied # "none"
    => /\ probe.batchItemFailures = ExpectedItemFailures
       /\ \A i \in DOMAIN probe.records :
            LET taskId == probe.records[i].taskId
            IN  /\ SucceededAlone(i)
                     => /\ taskId \in DOMAIN tasks
                        /\ tasks[taskId].status
                             = IF probe.applied = "processTask" THEN COMPLETED
                               ELSE DEAD_LETTER
                /\ getTask(tasks, taskId) = getTask(HandledAlone(i).table, taskId)

(* a batch of two in which the first record's handling threw and the       *)
(* second one completed                                                    *)
C37_Witness ==
  /\ probe.applied = "processTask"
  /\ Len(probe.records) = 2
  /\ HandledAlone(1).status = "rejected"
  /\ SucceededAlone(2)
  /\ probe.batchItemFailures = <<"m-1">>
  /\ tasks[probe.records[2].taskId].status = COMPLETED

(* a batch of the monitor with one record handled and one refused *)
C37_WitnessDLQ ==
  /\ probe.applied = "monitorDLQ"
  /\ Len(probe.records) = 2
  /\ probe.batchItemFailures = <<"m-2">>
  /\ tasks[probe.records[1].taskId].status = DEAD_LETTER


(* the submission r created the task record and has not yet queued its     *)
(* message or cleaned up after the failed send                             *)
BetweenCreateAndQueue(r, t) ==
  /\ req[r].taskId = t
  /\ req[r].create = "created"
  /\ req[r].pc \in {"send", "cleanup"}

ExpiredRecord(k) == k \in DOMAIN idem /\ now > idem[k].expiration

C39_Step ==
  /\ \A r \in Req :
       (BeforeStep(r) /\ ExpiredRecord(req[r].taskId))
         => /\ req'[r].check = "Proceed"
            /\ req'[r].response = NoResponse
            /\ req'[r].pc = "create"
  /\ \A r \in Req :
       (AfterStep(r) /\ ExpiredRecord(req[r].taskId)) => req'[r].store # "stored"
  /\ \A k \in DOMAIN idem :
       ExpiredRecord(k) => (k \notin DOMAIN idem' \/ idem'[k] = idem[k])

(* C39: while an expired idempotency record remains in the store, every    *)
(* submission under its key proceeds to the handler with no response       *)
(* replayed, and no new record is stored for the key: the record stays as  *)
(* it is until the store deletes it.                                       *)
C39_ExpiredRecordInert == [][C39_Step]_vars

(* a submission ran to its end under a key whose expired record is still   *)
(* in the store                                                            *)
C39_Witness ==
  \E r \in Req :
    /\ ExpiredRecord(req[r].taskId)
    /\ req[r].pc = "done"
    /\ req[r].check = "Proceed"
    /\ req[r].store = "skipped"
    /\ req[r].response.timestamp > idem[req[r].taskId].expiration
    /\ idem[req[r].taskId].createdAt = 0


(* C40: the lastError of a task the dead-letter monitor marked DEAD_LETTER *)
(* is the error message of the task's last failed processing attempt (the  *)
(* error its processing throws on every attempt).                          *)
C40_DeadLetterKeepsLastError ==
  \A t \in DOMAIN tasks :
    tasks[t].status = DEAD_LETTER
      => /\ "lastError" \in DOMAIN tasks[t]
         /\ tasks[t].lastError = simulatedError(t).message
====
